---- MODULE Spec2Model ----
(***************************************************************************)
(* PHPark: the site registry, the virtual-host generator, the nginx        *)
(* deployment service and the commands that tie them together              *)
(* (park, link, unlink, rebuild, secure, unsecure, use).                   *)
(*                                                                         *)
(* Strings the code inspects (site names, version strings) are sequences   *)
(* of one-character strings; paths are sequences of path components.       *)
(* Every site command is one action; the calls it made, in order, are kept *)
(* in `log`, its return value in `result`, its arguments in `cmd`.  trust  *)
(* and untrust are taken one external call at a time (`pc` is the next     *)
(* call), since the resolver files are read by running services in between.*)
(***************************************************************************)
EXTENDS Integers, Sequences, FiniteSets, TLC

VARIABLES sitesFile, configFile, stagedConf, sitesAvailable, sitesEnabled,
          defaultSite, certFiles, keyFiles, publicDirs, installed,
          cmd, log, result, ncmds, faults,
          resolvedConf, resolvedActive, stubListener, runResolve,
          phpParkDnsmasqConf, etcResolvConf, domainConf, pc

vars == <<sitesFile, configFile, stagedConf, sitesAvailable, sitesEnabled,
          defaultSite, certFiles, keyFiles, publicDirs, installed,
          cmd, log, result, ncmds, faults,
          resolvedConf, resolvedActive, stubListener, runResolve,
          phpParkDnsmasqConf, etcResolvConf, domainConf, pc>>

\* the registry, the config and the files of the sites
siteVars == <<sitesFile, configFile, stagedConf, sitesAvailable, sitesEnabled,
              defaultSite, certFiles, keyFiles, publicDirs, installed>>

\* the resolver files and services, and the position inside trust or untrust
dnsVars == <<resolvedConf, resolvedActive, stubListener, runResolve,
             phpParkDnsmasqConf, etcResolvConf, domainConf, pc>>

(***************************************************************************)
(* Bounds                                                                  *)
(***************************************************************************)
\* number of commands in one run
MaxCmds == 2
\* number of external calls (file system, nginx, systemctl, apt) that fail in one run
MaxFaults == 1
\* number of files in the directories the detector searches
MaxEntries == 2
\* length of a version string given to FormatVersion
MaxVersionLen == 5
\* number of components of a site path given to FixSitePermissions
MaxDepth == 3

(***************************************************************************)
(* Strings                                                                 *)
(***************************************************************************)
EmptyStr == <<>>
NameA == <<"a">>
NameB == <<"b">>
NameHidden == <<".", "h">>
NameFile == <<"f">>
NameSlash == <<"a", "/", "b">>
NameRoot == <<"/">>
NameS == <<"s">>
NameT == <<"t">>

V82 == <<"8", ".", "2">>
V83 == <<"8", ".", "3">>
V831 == <<"8", ".", "3", ".", "1">>

Range(s) == {s[i] : i \in 1..Len(s)}

\* the site names that can reach a registry or a file name within the bounds
AllNames == {NameA, NameB, NameSlash}

Entry(name, isDir) == [Name |-> name, IsDir |-> isDir]

\* the directories that are parked, with their listings as os.ReadDir returns
\* them: sorted by file name ('.' sorts before the letters)
DirS == <<NameS>>
DirT == <<NameT>>
ParkDirs == {DirS, DirT}
DirListing(path) ==
  IF path = DirS
  THEN <<Entry(NameHidden, TRUE), Entry(NameA, TRUE), Entry(NameFile, FALSE)>>
  ELSE <<Entry(NameA, TRUE), Entry(NameB, TRUE)>>

\* link is run from a directory, with or without a name argument
LinkInputs == {<<EmptyStr, <<NameS, NameA>>>>, <<EmptyStr, <<NameT, NameB>>>>,
               <<NameSlash, <<NameT, NameB>>>>}

\* a file's content: no file, or the text it holds
NoFile == <<>>
File(text) == <<text>>
Domain == "test"

(***************************************************************************)
(* internal/config: the registry (not in the source tree; from the data    *)
(* model: ordered, unique by name, insert-or-replace, delete by name)      *)
(***************************************************************************)
\* index of the record named name, 0 when absent (FindSite returns nil)
FindSite(sites, name) ==
  IF \E i \in 1..Len(sites) : sites[i].Name = name
  THEN CHOOSE i \in 1..Len(sites) :
         /\ sites[i].Name = name
         /\ \A j \in 1..(i - 1) : sites[j].Name # name
  ELSE 0

AddSite(sites, site) ==
  IF FindSite(sites, site.Name) # 0
  THEN [sites EXCEPT ![FindSite(sites, site.Name)] = site]
  ELSE Append(sites, site)

RECURSIVE RemoveSite(_, _)
RemoveSite(sites, name) ==
  IF sites = <<>> THEN <<>>
  ELSE IF Head(sites).Name = name THEN Tail(sites)
  ELSE <<Head(sites)>> \o RemoveSite(Tail(sites), name)

DefaultConfig == [Domain |-> Domain, DefaultPHP |-> V82, UseHTTPS |-> FALSE]

(***************************************************************************)
(* internal/php                                                            *)
(***************************************************************************)
\* strings.Split(s, "."): the parts between the dots, at least one part
RECURSIVE Split(_)
Split(s) ==
  IF \A i \in 1..Len(s) : s[i] # "." THEN <<s>>
  ELSE LET k == CHOOSE i \in 1..Len(s) :
                  s[i] = "." /\ \A j \in 1..(i - 1) : s[j] # "."
       IN <<SubSeq(s, 1, k - 1)>> \o Split(SubSeq(s, k + 1, Len(s)))

\* mutant of FormatVersion: only the major component is kept
FormatVersionMajor(version) == Split(version)[1]

\* lines 36-43
FormatVersion(version) ==
  LET parts == Split(version)
  IN IF Len(parts) >= 2 THEN parts[1] \o <<".">> \o parts[2] ELSE version

\* strings.HasPrefix on strings given by their characters
HasPrefixStr(s, prefix) == Len(s) >= Len(prefix) /\ SubSeq(s, 1, Len(prefix)) = prefix

\* mutant of ValidatePHPVersion: every version counts as detected
ValidatePHPVersionAny(version, availableVersions) == TRUE

\* detector.go 196-203
\* availableVersions is the set of Version fields of the detected entries
ValidatePHPVersion(version, availableVersions) == version \in availableVersions

(***************************************************************************)
(* internal/php: detection of the installed versions (Linux)               *)
(* A binary is given by what `<binary> -v` does: the call fails, or it     *)
(* prints a text; `banner` is the text that follows the first "PHP " of    *)
(* the output.  A directory is given by the binaries in it, by name.       *)
(***************************************************************************)
\* the bytes of a version string, in byte order
Bytes == <<".", "0", "1", "2", "3", "4", "5", "6", "7", "8", "9">>
Digits == {Bytes[i] : i \in 2..Len(Bytes)}
Ord(c) == CHOOSE i \in 1..Len(Bytes) : Bytes[i] = c

\* Go's < on strings: byte by byte, a proper prefix is less
RECURSIVE StrLess(_, _)
StrLess(a, b) ==
  IF b = <<>> THEN FALSE
  ELSE IF a = <<>> THEN TRUE
  ELSE IF a[1] # b[1] THEN Ord(a[1]) < Ord(b[1])
  ELSE StrLess(Tail(a), Tail(b))

\* the length of the longest run of digits of s that starts at position i
RECURSIVE DigitRun(_, _)
DigitRun(s, i) ==
  IF i > Len(s) \/ s[i] \notin Digits THEN 0 ELSE 1 + DigitRun(s, i + 1)

ExecFailed == [ok |-> FALSE, banner |-> <<>>]
Prints(banner) == [ok |-> TRUE, banner |-> banner]

\* the regular expression `PHP (\d+\.\d+)` on the output of the binary
GetPHPVersionFromBinary(bin) ==
  LET s == bin.banner
      d1 == DigitRun(s, 1)
      d2 == DigitRun(s, d1 + 2)
  IN IF ~bin.ok \/ d1 = 0 \/ d1 + 1 > Len(s) THEN [err |-> TRUE, version |-> EmptyStr]
     ELSE IF s[d1 + 1] # "." \/ d2 = 0 THEN [err |-> TRUE, version |-> EmptyStr]
     ELSE [err |-> FALSE, version |-> SubSeq(s, 1, d1 + 1 + d2)]

UsrBin == <<"usr", "bin">>
UsrLocalBin == <<"usr", "local", "bin">>
searchPaths == <<UsrBin, UsrLocalBin>>

\* the file names of a directory, in the order os.ReadDir lists them (by name)
Php == <<"p", "h", "p">>
Php7 == <<"p", "h", "p", "7">>
Php8 == <<"p", "h", "p", "8">>
Pip == <<"p", "i", "p">>
BinNames == <<Php, Php7, Php8, Pip>>

\* the entries the two loops of detectLinuxPHP visit, in the order they do
ScanOrder ==
  [k \in 1..(Len(searchPaths) * Len(BinNames)) |->
     <<searchPaths[((k - 1) \div Len(BinNames)) + 1], BinNames[((k - 1) % Len(BinNames)) + 1]>>]

PHPVersion(version, fullPath) ==
  [Version |-> version, FullPath |-> fullPath,
   FPMSocket |-> <<"/var/run/php/php", version, "-fpm.sock">>, IsDefault |-> FALSE]

\* detectMacPHP, lines 132-139 and 156-161: the socket of a Homebrew php@<v>
\* directory depends on the architecture, that of a plain php binary is fixed
PhpAt == <<"p", "h", "p", "@">>
MacFPMSocket(goarch, name, version) ==
  IF HasPrefixStr(name, PhpAt)
  THEN IF goarch = "amd64" THEN <<"/usr/local/var/run/php", version, "-fpm.sock">>
       ELSE <<"/opt/homebrew/var/run/php", version, "-fpm.sock">>
  ELSE <<"/tmp/php-fpm.sock">>

\* DetectPHPVersions, lines 14-19: the FPMSocket of the entry detection
\* returns for a binary of this name that reports this version
DetectedSocket(goos, goarch, name, version) ==
  IF goos = "linux" THEN PHPVersion(version, <<>>).FPMSocket
  ELSE MacFPMSocket(goarch, name, version)

\* mutant of Seen: no version counts as found already
SeenNever(versions, version) == FALSE

\* versionMap[version]
Seen(versions, version) == \E i \in 1..Len(versions) : versions[i].Version = version

\* lines 40-68: one entry of a directory that could be read
DetectEntry(versions, pos, files) ==
  LET name == pos[2]
      got == GetPHPVersionFromBinary(files[pos])
      version == FormatVersion(got.version)
  IN IF ~(HasPrefixStr(name, Php) /\ Len(name) > 3) THEN versions
     ELSE IF got.err THEN versions
     ELSE IF Seen(versions, version) THEN versions
     ELSE Append(versions, PHPVersion(version, Append(pos[1], name)))

\* lines 32-70: files maps the entries that exist to their binaries,
\* unreadable is the set of directories os.ReadDir fails on
RECURSIVE DetectLoop(_, _, _, _)
DetectLoop(files, unreadable, k, versions) ==
  IF k > Len(ScanOrder) THEN versions
  ELSE LET pos == ScanOrder[k]
       IN IF pos \notin DOMAIN files \/ pos[1] \in unreadable
          THEN DetectLoop(files, unreadable, k + 1, versions)
          ELSE DetectLoop(files, unreadable, k + 1, DetectEntry(versions, pos, files))

\* lines 72-85: the entry of the version `php` on the PATH reports is marked
MarkDefault(versions, lookPath) ==
  LET got == GetPHPVersionFromBinary(lookPath.bin)
      version == FormatVersion(got.version)
  IN IF ~lookPath.found \/ got.err \/ ~Seen(versions, version) THEN versions
     ELSE LET i == CHOOSE j \in 1..Len(versions) :
                     /\ versions[j].Version = version
                     /\ \A l \in 1..(j - 1) : versions[l].Version # version
          IN [versions EXCEPT ![i].IsDefault = TRUE]

\* lines 87-90: sort.Slice with less(i, j) = Version[i] > Version[j] on strings;
\* the versions differ pairwise, so the order is the only one less allows
RECURSIVE SortByVersion(_)
SortByVersion(versions) ==
  IF versions = <<>> THEN <<>>
  ELSE LET m == CHOOSE i \in 1..Len(versions) :
                  \A j \in 1..Len(versions) :
                    ~StrLess(versions[i].Version, versions[j].Version)
       IN <<versions[m]>>
          \o SortByVersion([k \in 1..(Len(versions) - 1) |->
                              IF k < m THEN versions[k] ELSE versions[k + 1]])

detectLinuxPHP(files, unreadable, lookPath) ==
  SortByVersion(MarkDefault(DetectLoop(files, unreadable, 1, <<>>), lookPath))

(***************************************************************************)
(* internal/nginx: the virtual-host generator                              *)
(***************************************************************************)
GetPHPSocket(phpVersion) ==
  <<"/var/run/php/php", IF phpVersion = EmptyStr THEN V82 ELSE phpVersion, "-fpm.sock">>

Public == <<"p", "u", "b", "l", "i", "c">>
PublicHtml == <<"p", "u", "b", "l", "i", "c", "_", "h", "t", "m", "l">>
Web == <<"w", "e", "b">>
Htdocs == <<"h", "t", "d", "o", "c", "s">>
candidates == <<Public, PublicHtml, Web, Htdocs>>

\* what os.Stat finds at a path: nothing, a regular file or a directory
StatKinds == {"none", "file", "dir"}

\* mutant of StatIsDir: whatever exists at the path is taken
StatExists(kind) == kind # "none"

\* line 29: err == nil && info.IsDir()
StatIsDir(kind) == kind = "dir"

\* lines 24-33: stat gives what is found under sitePath at each candidate name
RECURSIVE DocumentRootFrom(_, _, _)
DocumentRootFrom(sitePath, stat, i) ==
  IF i > Len(candidates) THEN sitePath
  ELSE IF StatIsDir(stat[candidates[i]]) THEN Append(sitePath, candidates[i])
  ELSE DocumentRootFrom(sitePath, stat, i + 1)

\* the site commands distinguish only `public`: pub is the set of site paths
\* under which `public` exists as a directory, nothing else exists under them
StatOf(sitePath, pub) ==
  [c \in Range(candidates) |-> IF c = Public /\ sitePath \in pub THEN "dir" ELSE "none"]

GetDocumentRoot(sitePath, pub) == DocumentRootFrom(sitePath, StatOf(sitePath, pub), 1)

CertPathOf(name) == <<"certificates", name, ".crt">>
KeyPathOf(name) == <<"certificates", name, ".key">>
NoPath == <<>>

\* the value of USER in the environment of the site commands
User == "u"

\* lines 52-80: stat is what is found under sitePath, user the value of USER
CreateSiteConfig(siteName, sitePath, domain, phpVersion, useSSL, stat, user) ==
  LET v == IF phpVersion = EmptyStr THEN V82 ELSE phpVersion
      certDir == <<"/home", user, ".phppark", "certificates">>
  IN [ServerName |-> <<siteName, domain>>,
      Root |-> DocumentRootFrom(sitePath, stat, 1),
      PHPSocket |-> GetPHPSocket(v),
      UseSSL |-> useSSL,
      CertPath |-> IF useSSL THEN certDir \o <<siteName, ".crt">> ELSE NoPath,
      KeyPath |-> IF useSSL THEN certDir \o <<siteName, ".key">> ELSE NoPath]

\* mutant of RenderSite: an empty override is bound to the built-in default
RenderSiteEarlyBound(site, cfg, pub) ==
  LET nginxCfg == CreateSiteConfig(site.Name, site.Path, cfg.Domain, site.PHPVersion,
                                   site.Secured, StatOf(site.Path, pub), User)
  IN IF site.Secured
     THEN [nginxCfg EXCEPT !.CertPath = CertPathOf(site.Name),
                           !.KeyPath = KeyPathOf(site.Name)]
     ELSE nginxCfg

\* mutant of RenderVhost: the certificate paths are left as CreateSiteConfig set them
RenderVhostUserPaths(site, cfg, stat, user) ==
  CreateSiteConfig(site.Name, site.Path, cfg.Domain,
                   IF site.PHPVersion = EmptyStr THEN cfg.DefaultPHP ELSE site.PHPVersion,
                   site.Secured, stat, user)

\* lines 664-689 of generateNginxConfig: the text written for a site, given
\* what is found under its path and the value of USER
RenderVhost(site, cfg, stat, user) ==
  LET phpVersion == IF site.PHPVersion = EmptyStr THEN cfg.DefaultPHP ELSE site.PHPVersion
      nginxCfg == CreateSiteConfig(site.Name, site.Path, cfg.Domain, phpVersion,
                                   site.Secured, stat, user)
  IN IF site.Secured
     THEN [nginxCfg EXCEPT !.CertPath = CertPathOf(site.Name),
                           !.KeyPath = KeyPathOf(site.Name)]
     ELSE nginxCfg

\* the text written for a site by the site commands
RenderSite(site, cfg, pub) == RenderVhost(site, cfg, StatOf(site.Path, pub), User)

(***************************************************************************)
(* The calls a command makes, in order                                     *)
(***************************************************************************)
\* fn: the function that made the call; op: the call; ok: whether it succeeded
L(fn, op, site, ok) == [fn |-> fn, op |-> op, site |-> site, ok |-> ok]

(***************************************************************************)
(* Outcomes of the external calls (file system, nginx, systemctl).  A call *)
(* that is not reached has no outcome, so the outcome of every call after  *)
(* the first fatal failure is fixed to success.                            *)
(***************************************************************************)
SymlinkOutcomes == {"ok", "fail_removed", "fail_kept"}

GenEnvs ==
  {e \in [write : BOOLEAN, copy : BOOLEAN, symlink : SymlinkOutcomes,
          rmdef : BOOLEAN, test : BOOLEAN, reload : BOOLEAN] :
     /\ ~e.write => e.copy /\ e.symlink = "ok" /\ e.rmdef /\ e.test /\ e.reload
     /\ ~e.copy => e.symlink = "ok" /\ e.rmdef /\ e.test /\ e.reload
     /\ e.symlink # "ok" => e.rmdef /\ e.test /\ e.reload
     /\ ~e.test => e.reload}

Fault(ok) == IF ok THEN 0 ELSE 1

GenFaults(e) ==
  Fault(e.write) + Fault(e.copy) + Fault(e.symlink = "ok") + Fault(e.rmdef)
  + Fault(e.test) + Fault(e.reload)

GenOK == [write |-> TRUE, copy |-> TRUE, symlink |-> "ok",
          rmdef |-> TRUE, test |-> TRUE, reload |-> TRUE]

RemoveEnvs ==
  {e \in [rmEnabled : BOOLEAN, rmAvailable : BOOLEAN, test : BOOLEAN, reload : BOOLEAN] :
     /\ ~e.rmEnabled => e.rmAvailable /\ e.test /\ e.reload
     /\ ~e.rmAvailable => e.test /\ e.reload
     /\ ~e.test => e.reload}

RemoveFaults(e) ==
  Fault(e.rmEnabled) + Fault(e.rmAvailable) + Fault(e.test) + Fault(e.reload)

RemoveOK == [rmEnabled |-> TRUE, rmAvailable |-> TRUE, test |-> TRUE, reload |-> TRUE]

(***************************************************************************)
(* internal/services/nginx.go                                              *)
(* x is the state outside the registry: the staged vhost files, nginx's    *)
(* sites-available and sites-enabled, and the catch-all default entry      *)
(***************************************************************************)
Ext == [staged |-> stagedConf, avail |-> sitesAvailable,
        enabled |-> sitesEnabled, def |-> defaultSite]

\* the reload step of DeployNginxConfig, reached only after a passed test
DeployReload(siteName, x, env, lg) ==
  IF ~env.reload
  THEN [x |-> x, log |-> Append(lg, L("deploy", "reload", siteName, FALSE)), err |-> "reload"]
  ELSE [x |-> x, log |-> Append(lg, L("deploy", "reload", siteName, TRUE)), err |-> "nil"]

\* mutant of DeployTest: the result of the test is logged but not acted on
DeployTestIgnored(siteName, x, env, lg) ==
  DeployReload(siteName, x, env, Append(lg, L("deploy", "test", siteName, env.test)))

\* mutant of DeployTest: a failed test takes the site's new files out again
DeployTestRollback(siteName, x, env, lg) ==
  IF ~env.test
  THEN [x |-> [x EXCEPT !.avail[siteName] = NoFile, !.enabled = @ \ {siteName}],
        log |-> Append(lg, L("deploy", "test", siteName, FALSE)), err |-> "test"]
  ELSE DeployReload(siteName, x, env, Append(lg, L("deploy", "test", siteName, TRUE)))

\* the test step of DeployNginxConfig and what follows it
DeployTest(siteName, x, env, lg) ==
  IF ~env.test
  THEN [x |-> x, log |-> Append(lg, L("deploy", "test", siteName, FALSE)), err |-> "test"]
  ELSE DeployReload(siteName, x, env, Append(lg, L("deploy", "test", siteName, TRUE)))

DeployNginxConfig(siteName, x, env) ==
  IF ~env.copy \/ x.staged[siteName] = NoFile
  THEN [x |-> x, log |-> <<L("deploy", "copy", siteName, FALSE)>>, err |-> "copy"]
  ELSE
    LET x1 == [x EXCEPT !.avail[siteName] = x.staged[siteName]]
        l1 == <<L("deploy", "copy", siteName, TRUE)>>
    IN IF env.symlink # "ok"
       THEN [x |-> IF env.symlink = "fail_removed"
                   THEN [x1 EXCEPT !.enabled = @ \ {siteName}] ELSE x1,
             log |-> Append(l1, L("deploy", "symlink", siteName, FALSE)),
             err |-> "symlink"]
       ELSE
         LET x2 == [x1 EXCEPT !.enabled = @ \cup {siteName}]
             l2 == Append(l1, L("deploy", "symlink", siteName, TRUE))
             x3 == IF x2.def /\ env.rmdef THEN [x2 EXCEPT !.def = FALSE] ELSE x2
             l3 == IF x2.def THEN Append(l2, L("deploy", "rmdefault", siteName, env.rmdef))
                   ELSE l2
         IN DeployTest(siteName, x3, env, l3)

\* mutant of RemoveNginxConfig: a missing enabled reference is an error
RemoveNginxConfigStrict(siteName, x, env) ==
  IF ~env.rmEnabled \/ siteName \notin x.enabled
  THEN [x |-> x, log |-> <<L("remove", "rm_enabled", siteName, FALSE)>>, err |-> "rm_enabled"]
  ELSE
    LET x1 == [x EXCEPT !.enabled = @ \ {siteName}]
        l1 == <<L("remove", "rm_enabled", siteName, TRUE)>>
    IN IF ~env.rmAvailable /\ x1.avail[siteName] # NoFile
       THEN [x |-> x1, log |-> Append(l1, L("remove", "rm_available", siteName, FALSE)),
             err |-> "rm_available"]
       ELSE
         LET x2 == [x1 EXCEPT !.avail[siteName] = NoFile]
             l2 == Append(l1, L("remove", "rm_available", siteName, TRUE))
         IN IF ~env.test
            THEN [x |-> x2, log |-> Append(l2, L("remove", "test", siteName, FALSE)),
                  err |-> "test"]
            ELSE IF ~env.reload
            THEN [x |-> x2,
                  log |-> l2 \o <<L("remove", "test", siteName, TRUE),
                                  L("remove", "reload", siteName, FALSE)>>,
                  err |-> "reload"]
            ELSE [x |-> x2,
                  log |-> l2 \o <<L("remove", "test", siteName, TRUE),
                                  L("remove", "reload", siteName, TRUE)>>,
                  err |-> "nil"]

RemoveNginxConfig(siteName, x, env) ==
  IF ~env.rmEnabled /\ siteName \in x.enabled
  THEN [x |-> x, log |-> <<L("remove", "rm_enabled", siteName, FALSE)>>, err |-> "rm_enabled"]
  ELSE
    LET x1 == [x EXCEPT !.enabled = @ \ {siteName}]
        l1 == <<L("remove", "rm_enabled", siteName, TRUE)>>
    IN IF ~env.rmAvailable /\ x1.avail[siteName] # NoFile
       THEN [x |-> x1, log |-> Append(l1, L("remove", "rm_available", siteName, FALSE)),
             err |-> "rm_available"]
       ELSE
         LET x2 == [x1 EXCEPT !.avail[siteName] = NoFile]
             l2 == Append(l1, L("remove", "rm_available", siteName, TRUE))
         IN IF ~env.test
            THEN [x |-> x2, log |-> Append(l2, L("remove", "test", siteName, FALSE)),
                  err |-> "test"]
            ELSE IF ~env.reload
            THEN [x |-> x2,
                  log |-> l2 \o <<L("remove", "test", siteName, TRUE),
                                  L("remove", "reload", siteName, FALSE)>>,
                  err |-> "reload"]
            ELSE [x |-> x2,
                  log |-> l2 \o <<L("remove", "test", siteName, TRUE),
                                  L("remove", "reload", siteName, TRUE)>>,
                  err |-> "nil"]

(***************************************************************************)
(* internal/php: InstallPHP                                                *)
(* env gives the outcome of each command InstallPHP runs                   *)
(***************************************************************************)
extensions == <<"-cli", "-common", "-mysql", "-curl", "-mbstring", "-xml", "-zip">>

Package(version, suffix) == <<"php", version, suffix>>

\* mutant of InstallExtensions: the first extension that fails ends the call
RECURSIVE InstallExtensionsStrict(_, _, _, _)
InstallExtensionsStrict(version, env, lg, i) ==
  IF i > Len(extensions) THEN [log |-> lg, err |-> "nil"]
  ELSE LET l1 == Append(lg, L("install", "apt_install", Package(version, extensions[i]),
                              env.ext[i]))
       IN IF ~env.ext[i] THEN [log |-> l1, err |-> "extension"]
          ELSE InstallExtensionsStrict(version, env, l1, i + 1)

\* lines 46-49: the result of cmd.Run() is dropped
RECURSIVE InstallExtensions(_, _, _, _)
InstallExtensions(version, env, lg, i) ==
  IF i > Len(extensions) THEN [log |-> lg, err |-> "nil"]
  ELSE InstallExtensions(version, env,
                         Append(lg, L("install", "apt_install",
                                      Package(version, extensions[i]), env.ext[i])),
                         i + 1)

\* lines 9-53
InstallPHP(version, env) ==
  LET l1 == <<L("install", "add_repository", <<"ppa:ondrej/php">>, env.repo)>>
      l2 == Append(l1, L("install", "apt_update", <<>>, env.update))
      l3 == Append(l2, L("install", "apt_install", Package(version, "-fpm"), env.core))
  IN IF ~env.repo THEN [log |-> l1, err |-> "repository"]
     ELSE IF ~env.update THEN [log |-> l2, err |-> "update"]
     ELSE IF ~env.core THEN [log |-> l3, err |-> "install"]
     ELSE InstallExtensions(version, env, l3, 1)

(***************************************************************************)
(* internal/services/permissions.go                                        *)
(* An absolute path is the sequence of its components, <<>> being the root *)
(* directory; denied is the set of paths os.Chmod fails on.                *)
(***************************************************************************)
\* filepath.Dir of an absolute path: the root is its own parent
Dir(path) == IF path = <<>> THEN <<>> ELSE SubSeq(path, 1, Len(path) - 1)

Chmod(path, mode) == [path |-> path, mode |-> mode]

\* lines 38-56: the loop of fixParentPermissions, done being the calls made so far
RECURSIVE ParentLoop(_, _, _, _)
ParentLoop(current, homeDir, denied, done) ==
  IF current \in denied THEN [chmods |-> done, err |-> TRUE]
  ELSE LET done1 == Append(done, Chmod(current, "0755"))
       IN IF current = homeDir THEN [chmods |-> done1, err |-> FALSE]
          ELSE IF Dir(current) = current THEN [chmods |-> done1, err |-> FALSE]
          ELSE ParentLoop(Dir(current), homeDir, denied, done1)

fixParentPermissions(path, homeDir, denied) == ParentLoop(path, homeDir, denied, <<>>)

\* lines 62-76: filepath.Walk visits the directory and then what is in it;
\* tree is the sequence of what is under the directory, in the order of the
\* walk, each entry with its path relative to the directory
RECURSIVE WalkLoop(_, _, _, _)
WalkLoop(path, tree, i, done) ==
  IF i > Len(tree) THEN [chmods |-> done, err |-> FALSE]
  ELSE WalkLoop(path, tree, i + 1,
                Append(done, Chmod(path \o tree[i].rel,
                                   IF tree[i].isDir THEN "0755" ELSE "0644")))

fixDirectoryPermissions(path, tree) ==
  WalkLoop(path, tree, 1, <<Chmod(path, "0755")>>)

\* lines 10-28; absPath is what filepath.Abs gave
FixSitePermissions(absPath, homeDir, denied, tree) ==
  LET up == fixParentPermissions(absPath, homeDir, denied)
      down == fixDirectoryPermissions(absPath, tree)
  IN IF up.err THEN up
     ELSE [chmods |-> up.chmods \o down.chmods, err |-> FALSE]

(***************************************************************************)
(* cmd/phppark: generateNginxConfig                                        *)
(***************************************************************************)
\* mutant of GenerateDeploy: a failed deploy is returned as an error
GenerateDeployStrict(site, cfg, x, env, lg) ==
  LET phpVersion == IF site.PHPVersion = EmptyStr THEN cfg.DefaultPHP ELSE site.PHPVersion
      d == DeployNginxConfig(site.Name, x, env)
      l1 == Append(lg, L("generate", "fixperms", site.Name, TRUE)) \o d.log
      l2 == Append(l1, L("generate", "deploy", site.Name, d.err = "nil"))
      l3 == IF phpVersion # EmptyStr
            THEN Append(l2, L("generate", "startfpm", site.Name, TRUE)) ELSE l2
      l4 == Append(l3, L("generate", "startnginx", site.Name, TRUE))
  IN IF d.err # "nil" THEN [x |-> d.x, log |-> l2, err |-> "deploy"]
     ELSE [x |-> d.x, log |-> l4, err |-> "nil"]

\* lines 699-724: after the staged file is written
GenerateDeploy(site, cfg, x, env, lg) ==
  LET phpVersion == IF site.PHPVersion = EmptyStr THEN cfg.DefaultPHP ELSE site.PHPVersion
      d == DeployNginxConfig(site.Name, x, env)
      l1 == Append(lg, L("generate", "fixperms", site.Name, TRUE)) \o d.log
      l2 == Append(l1, L("generate", "deploy", site.Name, d.err = "nil"))
      l3 == IF phpVersion # EmptyStr
            THEN Append(l2, L("generate", "startfpm", site.Name, TRUE)) ELSE l2
      l4 == Append(l3, L("generate", "startnginx", site.Name, TRUE))
  IN [x |-> d.x, log |-> l4, err |-> "nil"]

generateNginxConfig(site, cfg, x, env, pub) ==
  IF ~env.write
  THEN [x |-> x, log |-> <<L("generate", "write", site.Name, FALSE)>>, err |-> "write"]
  ELSE GenerateDeploy(site, cfg,
                      [x EXCEPT !.staged[site.Name] = File(RenderSite(site, cfg, pub))],
                      env, <<L("generate", "write", site.Name, TRUE)>>)

(***************************************************************************)
(* cmd/phppark: the commands                                               *)
(***************************************************************************)
Cmd(op, name, path, version, entries) ==
  [op |-> op, name |-> name, path |-> path, version |-> version, entries |-> entries]

NoCmd == Cmd("none", EmptyStr, <<>>, EmptyStr, <<>>)

SetExt(x) ==
  /\ stagedConf' = x.staged
  /\ sitesAvailable' = x.avail
  /\ sitesEnabled' = x.enabled
  /\ defaultSite' = x.def

Finish(c, lg, res) ==
  /\ cmd' = c
  /\ log' = lg
  /\ result' = res
  /\ ncmds' = ncmds + 1
  /\ UNCHANGED dnsVars

\* k of the external calls of the command fail
Inject(k) ==
  /\ faults + k <= MaxFaults
  /\ faults' = faults + k

LoadSitesOK == <<L("cmd", "load_sites", EmptyStr, TRUE)>>
LoadSitesFail == <<L("cmd", "load_sites", EmptyStr, FALSE)>>
LoadConfigLog(ok) == L("cmd", "load_config", EmptyStr, ok)
SaveLog(ok) == L("cmd", "save_sites", EmptyStr, ok)

\* filepath.Base of a path given by its components
Base(dir) == IF dir = <<>> THEN NameRoot ELSE dir[Len(dir)]

(* ---- park ---- *)
ParkSite(name, absPath, cfg) ==
  [Name |-> name, Path |-> Append(absPath, name), Type |-> "park",
   PHPVersion |-> EmptyStr, Secured |-> cfg.UseHTTPS]

\* lines 368-378: entries the loop passes over without looking at the registry
ParkIgnores(entry) == ~entry.IsDir \/ entry.Name[1] = "."

\* mutant of ParkEntry: a registered name is put again, as a parked site
ParkEntryUpsert(entry, absPath, cfg, acc, env, pub) ==
  IF FindSite(acc.sites, entry.Name) # 0
  THEN [acc EXCEPT !.sites = AddSite(@, ParkSite(entry.Name, absPath, cfg)),
                   !.added = @ + 1]
  ELSE LET site == ParkSite(entry.Name, absPath, cfg)
           g == generateNginxConfig(site, cfg, acc.x, env, pub)
       IN [sites |-> AddSite(acc.sites, site),
           x |-> g.x,
           added |-> IF g.err = "nil" THEN acc.added + 1 ELSE acc.added,
           skipped |-> acc.skipped,
           log |-> Append(acc.log, L("cmd", "add", entry.Name, TRUE)) \o g.log]

\* lines 380-406: one subdirectory that is not ignored
ParkEntry(entry, absPath, cfg, acc, env, pub) ==
  IF FindSite(acc.sites, entry.Name) # 0
  THEN [acc EXCEPT !.skipped = @ + 1]
  ELSE LET site == ParkSite(entry.Name, absPath, cfg)
           g == generateNginxConfig(site, cfg, acc.x, env, pub)
       IN [sites |-> AddSite(acc.sites, site),
           x |-> g.x,
           added |-> IF g.err = "nil" THEN acc.added + 1 ELSE acc.added,
           skipped |-> acc.skipped,
           log |-> Append(acc.log, L("cmd", "add", entry.Name, TRUE)) \o g.log]

RECURSIVE ParkLoop(_, _, _, _, _, _, _)
ParkLoop(entries, i, absPath, cfg, acc, envs, pub) ==
  IF i > Len(entries) THEN acc
  ELSE IF ParkIgnores(entries[i])
  THEN ParkLoop(entries, i + 1, absPath, cfg, acc, envs, pub)
  ELSE ParkLoop(entries, i + 1, absPath, cfg,
                ParkEntry(entries[i], absPath, cfg, acc, envs[entries[i].Name], pub),
                envs, pub)

\* lines 409-414: whether the registry is written at the end of park
ParkSaves(acc) == acc.added > 0

\* the names of a listing for which park generates a vhost
ParkGenerated(entries, sites) ==
  {entries[i].Name : i \in {j \in 1..Len(entries) :
       ~ParkIgnores(entries[j]) /\ FindSite(sites, entries[j].Name) = 0}}

runPark(path, entries, load, envs, save) ==
  LET c == Cmd("park", EmptyStr, path, EmptyStr, entries)
      acc0 == [sites |-> sitesFile, x |-> Ext, added |-> 0, skipped |-> 0,
               log |-> LoadSitesOK \o <<LoadConfigLog(TRUE)>>]
      acc == ParkLoop(entries, 1, path, configFile, acc0, envs, publicDirs)
  IN
  /\ UNCHANGED <<configFile, certFiles, keyFiles, publicDirs, installed>>
  /\ IF load = "nodir"
     THEN /\ Finish(c, <<>>, "err_path")
          /\ UNCHANGED <<sitesFile, stagedConf, sitesAvailable, sitesEnabled, defaultSite>>
     ELSE IF load = "sites"
     THEN /\ Finish(c, LoadSitesFail, "err_load_sites")
          /\ UNCHANGED <<sitesFile, stagedConf, sitesAvailable, sitesEnabled, defaultSite>>
     ELSE IF load = "config"
     THEN /\ Finish(c, LoadSitesOK \o <<LoadConfigLog(FALSE)>>, "err_load_config")
          /\ UNCHANGED <<sitesFile, stagedConf, sitesAvailable, sitesEnabled, defaultSite>>
     ELSE /\ SetExt(acc.x)
          /\ IF ~ParkSaves(acc)
             THEN /\ UNCHANGED sitesFile
                  /\ Finish(c, acc.log, "ok")
             ELSE IF ~save
             THEN /\ UNCHANGED sitesFile
                  /\ Finish(c, Append(acc.log, SaveLog(FALSE)), "err_save")
             ELSE /\ sitesFile' = acc.sites
                  /\ Finish(c, Append(acc.log, SaveLog(TRUE)), "ok")

(* ---- link ---- *)
LinkName(name, currentDir) == IF name = EmptyStr THEN Base(currentDir) ELSE name

LinkSite(name, currentDir, cfg) ==
  [Name |-> name, Path |-> currentDir, Type |-> "link",
   PHPVersion |-> EmptyStr, Secured |-> cfg.UseHTTPS]

\* mutant of LinkApply: the registry is written only when the deploy succeeded
LinkApplyRollback(c, site, l0, save, env) ==
  LET g == generateNginxConfig(site, configFile, Ext, env, publicDirs)
      deployed == \A i \in 1..Len(g.log) : g.log[i].ok
  IN IF ~save
     THEN /\ Finish(c, Append(l0, SaveLog(FALSE)), "err_save")
          /\ UNCHANGED <<sitesFile, stagedConf, sitesAvailable, sitesEnabled, defaultSite>>
     ELSE /\ sitesFile' = IF deployed THEN AddSite(sitesFile, site) ELSE sitesFile
          /\ SetExt(g.x)
          /\ Finish(c, Append(l0, SaveLog(TRUE)) \o g.log, "ok")

\* lines 498-515: the site is added and saved, then its vhost is generated;
\* a failed generation is a warning
LinkApply(c, site, l0, save, env) ==
  LET g == generateNginxConfig(site, configFile, Ext, env, publicDirs)
  IN IF ~save
     THEN /\ Finish(c, Append(l0, SaveLog(FALSE)), "err_save")
          /\ UNCHANGED <<sitesFile, stagedConf, sitesAvailable, sitesEnabled, defaultSite>>
     ELSE /\ sitesFile' = AddSite(sitesFile, site)
          /\ SetExt(g.x)
          /\ Finish(c, Append(l0, SaveLog(TRUE)) \o g.log, "ok")

runLink(nameArg, currentDir, load, save, env) ==
  LET name == LinkName(nameArg, currentDir)
      c == Cmd("link", nameArg, currentDir, EmptyStr, <<>>)
      site == LinkSite(name, currentDir, configFile)
      l0 == LoadSitesOK \o <<LoadConfigLog(TRUE), L("cmd", "add", name, TRUE)>>
  IN
  /\ UNCHANGED <<configFile, certFiles, keyFiles, publicDirs, installed>>
  /\ IF load = "sites"
     THEN /\ Finish(c, LoadSitesFail, "err_load_sites")
          /\ UNCHANGED <<sitesFile, stagedConf, sitesAvailable, sitesEnabled, defaultSite>>
     ELSE IF FindSite(sitesFile, name) # 0
     THEN /\ Finish(c, LoadSitesOK, "ok")
          /\ UNCHANGED <<sitesFile, stagedConf, sitesAvailable, sitesEnabled, defaultSite>>
     ELSE IF load = "config"
     THEN /\ Finish(c, LoadSitesOK \o <<LoadConfigLog(FALSE)>>, "err_load_config")
          /\ UNCHANGED <<sitesFile, stagedConf, sitesAvailable, sitesEnabled, defaultSite>>
     ELSE LinkApply(c, site, l0, save, env)

(* ---- unlink ---- *)
\* lines 569-586: after the site has been found and the config loaded
UnlinkApply(siteName, rmStaged, renv, save) ==
  LET l0 == LoadSitesOK \o <<LoadConfigLog(TRUE)>>
      x1 == [Ext EXCEPT !.staged[siteName] = NoFile]
      r == RemoveNginxConfig(siteName, x1, renv)
      l1 == Append(l0, L("cmd", "rm_staged", siteName, TRUE)) \o r.log
      l2 == Append(l1, L("cmd", "remove_nginx", siteName, r.err = "nil"))
      l3 == Append(l2, L("cmd", "remove_site", siteName, TRUE))
  IN IF ~rmStaged /\ stagedConf[siteName] # NoFile
     THEN [x |-> Ext, sites |-> sitesFile,
           log |-> Append(l0, L("cmd", "rm_staged", siteName, FALSE)),
           res |-> "err_remove"]
     ELSE IF ~save
     THEN [x |-> r.x, sites |-> sitesFile, log |-> Append(l3, SaveLog(FALSE)),
           res |-> "err_save"]
     ELSE [x |-> r.x, sites |-> RemoveSite(sitesFile, siteName),
           log |-> Append(l3, SaveLog(TRUE)), res |-> "ok"]

\* mutant of UnlinkFound: the lookup result is not checked
UnlinkFoundAlways(sites, siteName) == TRUE

\* lines 546-550: the site must be registered
UnlinkFound(sites, siteName) == FindSite(sites, siteName) # 0

runUnlink(siteName, load, rmStaged, renv, save) ==
  LET c == Cmd("unlink", siteName, <<>>, EmptyStr, <<>>)
      u == UnlinkApply(siteName, rmStaged, renv, save)
  IN
  /\ UNCHANGED <<configFile, certFiles, keyFiles, publicDirs, installed>>
  /\ IF load = "sites"
     THEN /\ Finish(c, LoadSitesFail, "err_load_sites")
          /\ UNCHANGED <<sitesFile, stagedConf, sitesAvailable, sitesEnabled, defaultSite>>
     ELSE IF ~UnlinkFound(sitesFile, siteName)
     THEN /\ Finish(c, LoadSitesOK, "err_not_found")
          /\ UNCHANGED <<sitesFile, stagedConf, sitesAvailable, sitesEnabled, defaultSite>>
     ELSE IF load = "config"
     THEN /\ Finish(c, LoadSitesOK \o <<LoadConfigLog(FALSE)>>, "err_load_config")
          /\ UNCHANGED <<sitesFile, stagedConf, sitesAvailable, sitesEnabled, defaultSite>>
     ELSE /\ sitesFile' = u.sites
          /\ SetExt(u.x)
          /\ Finish(c, u.log, u.res)

(* ---- rebuild ---- *)
\* mutant of RebuildLoop: a site whose staged vhost file exists is passed over
RECURSIVE RebuildLoopSkipStaged(_, _, _, _, _, _)
RebuildLoopSkipStaged(allSites, i, cfg, acc, envs, pub) ==
  IF i > Len(allSites) THEN acc
  ELSE IF acc.x.staged[allSites[i].Name] # NoFile
  THEN RebuildLoopSkipStaged(allSites, i + 1, cfg, acc, envs, pub)
  ELSE LET g == generateNginxConfig(allSites[i], cfg, acc.x, envs[allSites[i].Name], pub)
       IN RebuildLoopSkipStaged(allSites, i + 1, cfg,
                      [x |-> g.x, log |-> acc.log \o g.log,
                       success |-> IF g.err = "nil" THEN acc.success + 1 ELSE acc.success,
                       failed |-> IF g.err = "nil" THEN acc.failed ELSE acc.failed + 1],
                      envs, pub)

RECURSIVE RebuildLoop(_, _, _, _, _, _)
RebuildLoop(allSites, i, cfg, acc, envs, pub) ==
  IF i > Len(allSites) THEN acc
  ELSE LET g == generateNginxConfig(allSites[i], cfg, acc.x, envs[allSites[i].Name], pub)
       IN RebuildLoop(allSites, i + 1, cfg,
                      [x |-> g.x, log |-> acc.log \o g.log,
                       success |-> IF g.err = "nil" THEN acc.success + 1 ELSE acc.success,
                       failed |-> IF g.err = "nil" THEN acc.failed ELSE acc.failed + 1],
                      envs, pub)

runRebuild(load, envs) ==
  LET c == Cmd("rebuild", EmptyStr, <<>>, EmptyStr, <<>>)
      l0 == LoadSitesOK \o <<LoadConfigLog(TRUE)>>
      acc == RebuildLoop(sitesFile, 1, configFile,
                         [x |-> Ext, log |-> l0, success |-> 0, failed |-> 0],
                         envs, publicDirs)
  IN
  /\ UNCHANGED <<sitesFile, configFile, certFiles, keyFiles, publicDirs, installed>>
  /\ IF load = "sites"
     THEN /\ Finish(c, LoadSitesFail, "err_load_sites")
          /\ UNCHANGED <<stagedConf, sitesAvailable, sitesEnabled, defaultSite>>
     ELSE IF load = "config"
     THEN /\ Finish(c, LoadSitesOK \o <<LoadConfigLog(FALSE)>>, "err_load_config")
          /\ UNCHANGED <<stagedConf, sitesAvailable, sitesEnabled, defaultSite>>
     ELSE /\ SetExt(acc.x)
          /\ Finish(c, acc.log, "ok")

(* ---- secure / unsecure ---- *)
CertificateExists(siteName, certs, keys) == siteName \in certs /\ siteName \in keys

CertOutcomes == {"ok", "fail_early", "fail_key", "fail_chmod"}

\* the certificate and key files after GenerateSelfSignedCert
GenerateSelfSignedCert(siteName, certs, keys, outcome) ==
  IF outcome = "fail_early" THEN [certs |-> certs, keys |-> keys, err |-> "cert"]
  ELSE IF outcome = "fail_key"
  THEN [certs |-> certs \cup {siteName}, keys |-> keys, err |-> "key"]
  ELSE [certs |-> certs \cup {siteName}, keys |-> keys \cup {siteName},
        err |-> IF outcome = "ok" THEN "nil" ELSE "chmod"]

RmCertOutcomes == {"ok", "fail_cert", "fail_key"}

\* mutant of RemoveCertificate: only the certificate file is removed
RemoveCertificateCertOnly(siteName, certs, keys, outcome) ==
  IF outcome = "fail_cert" /\ siteName \in certs
  THEN [certs |-> certs, keys |-> keys, err |-> "cert"]
  ELSE [certs |-> certs \ {siteName}, keys |-> keys, err |-> "nil"]

RemoveCertificate(siteName, certs, keys, outcome) ==
  IF outcome = "fail_cert" /\ siteName \in certs
  THEN [certs |-> certs, keys |-> keys, err |-> "cert"]
  ELSE IF outcome = "fail_key" /\ siteName \in keys
  THEN [certs |-> certs \ {siteName}, keys |-> keys, err |-> "key"]
  ELSE [certs |-> certs \ {siteName}, keys |-> keys \ {siteName}, err |-> "nil"]

\* mutant of SetSecured: the changed record is appended
SetSecuredAppend(sites, siteName, secured) ==
  Append(sites, [sites[FindSite(sites, siteName)] EXCEPT !.Secured = secured])

\* lines 844-846 and 917-919: the record is changed and put back by name
SetSecured(sites, siteName, secured) ==
  AddSite(sites, [sites[FindSite(sites, siteName)] EXCEPT !.Secured = secured])

\* mutant of SaveThenGenerate: the vhost is regenerated and deployed first,
\* the registry saved afterwards
GenerateThenSave(c, sites, siteName, l0, save, env) ==
  LET site == sites[FindSite(sites, siteName)]
      g == generateNginxConfig(site, configFile, Ext, env, publicDirs)
  IN /\ SetExt(g.x)
     /\ IF g.err # "nil"
        THEN /\ UNCHANGED sitesFile
             /\ Finish(c, l0 \o g.log, "err_nginx")
        ELSE IF ~save
        THEN /\ UNCHANGED sitesFile
             /\ Finish(c, Append(l0 \o g.log, SaveLog(FALSE)), "err_save")
        ELSE /\ sitesFile' = sites
             /\ Finish(c, Append(l0 \o g.log, SaveLog(TRUE)), "ok")

\* lines 848-856 and 921-929: save, then regenerate
SaveThenGenerate(c, sites, siteName, l0, save, env) ==
  LET site == sites[FindSite(sites, siteName)]
      g == generateNginxConfig(site, configFile, Ext, env, publicDirs)
  IN IF ~save
     THEN /\ Finish(c, Append(l0, SaveLog(FALSE)), "err_save")
          /\ UNCHANGED <<sitesFile, stagedConf, sitesAvailable, sitesEnabled, defaultSite>>
     ELSE /\ sitesFile' = sites
          /\ SetExt(g.x)
          /\ Finish(c, Append(l0, SaveLog(TRUE)) \o g.log,
                    IF g.err = "nil" THEN "ok" ELSE "err_nginx")

runSecure(siteName, load, certOutcome, save, env) ==
  LET c == Cmd("secure", siteName, <<>>, EmptyStr, <<>>)
      i == FindSite(sitesFile, siteName)
      l0 == LoadSitesOK \o <<LoadConfigLog(TRUE)>>
      gc == GenerateSelfSignedCert(siteName, certFiles, keyFiles, certOutcome)
      l1 == Append(l0, L("cmd", "gen_cert", siteName, gc.err = "nil"))
  IN
  /\ UNCHANGED <<configFile, publicDirs, installed>>
  /\ IF load = "sites"
     THEN /\ Finish(c, LoadSitesFail, "err_load_sites")
          /\ UNCHANGED <<sitesFile, stagedConf, sitesAvailable, sitesEnabled, defaultSite,
                         certFiles, keyFiles>>
     ELSE IF i = 0
     THEN /\ Finish(c, LoadSitesOK, "err_not_found")
          /\ UNCHANGED <<sitesFile, stagedConf, sitesAvailable, sitesEnabled, defaultSite,
                         certFiles, keyFiles>>
     ELSE IF load = "config"
     THEN /\ Finish(c, LoadSitesOK \o <<LoadConfigLog(FALSE)>>, "err_load_config")
          /\ UNCHANGED <<sitesFile, stagedConf, sitesAvailable, sitesEnabled, defaultSite,
                         certFiles, keyFiles>>
     ELSE IF sitesFile[i].Secured /\ CertificateExists(siteName, certFiles, keyFiles)
     THEN /\ Finish(c, l0, "ok")
          /\ UNCHANGED <<sitesFile, stagedConf, sitesAvailable, sitesEnabled, defaultSite,
                         certFiles, keyFiles>>
     ELSE /\ certFiles' = gc.certs
          /\ keyFiles' = gc.keys
          /\ IF gc.err # "nil"
             THEN /\ Finish(c, l1, "err_cert")
                  /\ UNCHANGED <<sitesFile, stagedConf, sitesAvailable, sitesEnabled,
                                 defaultSite>>
             ELSE SaveThenGenerate(c, SetSecured(sitesFile, siteName, TRUE), siteName,
                                   Append(l1, L("cmd", "add", siteName, TRUE)), save, env)

runUnsecure(siteName, load, rmOutcome, save, env) ==
  LET c == Cmd("unsecure", siteName, <<>>, EmptyStr, <<>>)
      i == FindSite(sitesFile, siteName)
      l0 == LoadSitesOK \o <<LoadConfigLog(TRUE)>>
      rc == RemoveCertificate(siteName, certFiles, keyFiles, rmOutcome)
      l1 == Append(l0, L("cmd", "rm_cert", siteName, rc.err = "nil"))
  IN
  /\ UNCHANGED <<configFile, publicDirs, installed>>
  /\ IF load = "sites"
     THEN /\ Finish(c, LoadSitesFail, "err_load_sites")
          /\ UNCHANGED <<sitesFile, stagedConf, sitesAvailable, sitesEnabled, defaultSite,
                         certFiles, keyFiles>>
     ELSE IF i = 0
     THEN /\ Finish(c, LoadSitesOK, "err_not_found")
          /\ UNCHANGED <<sitesFile, stagedConf, sitesAvailable, sitesEnabled, defaultSite,
                         certFiles, keyFiles>>
     ELSE IF load = "config"
     THEN /\ Finish(c, LoadSitesOK \o <<LoadConfigLog(FALSE)>>, "err_load_config")
          /\ UNCHANGED <<sitesFile, stagedConf, sitesAvailable, sitesEnabled, defaultSite,
                         certFiles, keyFiles>>
     ELSE IF ~sitesFile[i].Secured
     THEN /\ Finish(c, l0, "ok")
          /\ UNCHANGED <<sitesFile, stagedConf, sitesAvailable, sitesEnabled, defaultSite,
                         certFiles, keyFiles>>
     ELSE /\ certFiles' = rc.certs
          /\ keyFiles' = rc.keys
          /\ SaveThenGenerate(c, SetSecured(sitesFile, siteName, FALSE), siteName,
                              Append(l1, L("cmd", "add", siteName, TRUE)), save, env)

(* ---- use ---- *)
InstallOutcomes == {"declined", "install_failed", "installed", "undetected"}

\* mutant of SetPHPVersion: the changed record is appended
SetPHPVersionAppend(sites, siteName, phpVersion) ==
  Append(sites, [sites[FindSite(sites, siteName)] EXCEPT !.PHPVersion = phpVersion])

\* lines 1097-1099: the override is changed and the record put back by name
SetPHPVersion(sites, siteName, phpVersion) ==
  AddSite(sites, [sites[FindSite(sites, siteName)] EXCEPT !.PHPVersion = phpVersion])

\* lines 1053-1108: after the version has been found installed
UseApply(c, phpVersion, siteName, l0, load, save) ==
  IF load = "config"
  THEN /\ Finish(c, Append(l0, LoadConfigLog(FALSE)), "err_load_config")
       /\ UNCHANGED <<sitesFile, configFile>>
  ELSE IF siteName = EmptyStr
  THEN /\ UNCHANGED sitesFile
       /\ IF ~save
          THEN /\ UNCHANGED configFile
               /\ Finish(c, l0 \o <<LoadConfigLog(TRUE), L("cmd", "save_config", EmptyStr, FALSE)>>,
                         "err_save")
          ELSE /\ configFile' = [configFile EXCEPT !.DefaultPHP = phpVersion]
               /\ Finish(c, l0 \o <<LoadConfigLog(TRUE), L("cmd", "save_config", EmptyStr, TRUE),
                                    L("cmd", "update_alternatives", EmptyStr, TRUE)>>, "ok")
  ELSE /\ UNCHANGED configFile
       /\ IF load = "sites"
          THEN /\ UNCHANGED sitesFile
               /\ Finish(c, l0 \o <<LoadConfigLog(TRUE)>> \o LoadSitesFail, "err_load_sites")
          ELSE IF FindSite(sitesFile, siteName) = 0
          THEN /\ UNCHANGED sitesFile
               /\ Finish(c, l0 \o <<LoadConfigLog(TRUE)>> \o LoadSitesOK, "err_not_found")
          ELSE IF ~save
          THEN /\ UNCHANGED sitesFile
               /\ Finish(c, l0 \o <<LoadConfigLog(TRUE)>> \o LoadSitesOK
                            \o <<L("cmd", "add", siteName, TRUE), SaveLog(FALSE)>>, "err_save")
          ELSE /\ sitesFile' = SetPHPVersion(sitesFile, siteName, phpVersion)
               /\ Finish(c, l0 \o <<LoadConfigLog(TRUE)>> \o LoadSitesOK
                            \o <<L("cmd", "add", siteName, TRUE), SaveLog(TRUE)>>, "ok")

runUse(versionArg, siteName, install, load, save) ==
  LET c == Cmd("use", siteName, <<>>, versionArg, <<>>)
      phpVersion == FormatVersion(versionArg)
      l0 == <<L("cmd", "detect", EmptyStr, TRUE)>>
  IN
  /\ UNCHANGED <<stagedConf, sitesAvailable, sitesEnabled, defaultSite,
                 certFiles, keyFiles, publicDirs>>
  /\ IF ValidatePHPVersion(phpVersion, installed)
     THEN /\ UNCHANGED installed
          /\ UseApply(c, phpVersion, siteName, l0, load, save)
     ELSE IF install = "declined"
     THEN /\ Finish(c, l0, "err_not_installed")
          /\ UNCHANGED <<sitesFile, configFile, installed>>
     ELSE IF install = "install_failed"
     THEN /\ Finish(c, Append(l0, L("cmd", "install", EmptyStr, FALSE)), "err_install")
          /\ UNCHANGED <<sitesFile, configFile, installed>>
     ELSE IF install = "undetected"
     THEN /\ Finish(c, l0 \o <<L("cmd", "install", EmptyStr, TRUE),
                               L("cmd", "detect", EmptyStr, TRUE)>>, "err_not_detected")
          /\ UNCHANGED <<sitesFile, configFile, installed>>
     ELSE /\ installed' = installed \cup {phpVersion}
          /\ UseApply(c, phpVersion, siteName,
                      l0 \o <<L("cmd", "install", EmptyStr, TRUE),
                              L("cmd", "detect", EmptyStr, TRUE)>>, load, save)

(***************************************************************************)
(* internal/dns: text of /etc/systemd/resolved.conf                        *)
(* A text is the sequence of its lines as strings.Split(content, "\n")     *)
(* gives them (the empty text is one empty line, a text that ends in a     *)
(* newline has an empty last line); a line is a sequence of words, a word  *)
(* being a run of characters the code never looks into.                    *)
(***************************************************************************)
Directive == "DNSStubListener="
Section == "[Resolve]"
Space == " "

LEmpty == <<>>
LSection == <<Section>>
LDirectiveYes == <<Directive, "yes">>
LDirectiveNo == <<Directive, "no">>
LIndentedYes == <<Space, Directive, "yes">>
LCommentedYes == <<"#", Directive, "yes">>
LOther == <<"DNS=", "9.9.9.9">>

EmptyText == <<LEmpty>>

\* the contents /etc/systemd/resolved.conf starts with, when it exists
ResolvedTexts ==
  {EmptyText,
   <<LOther>>,
   <<LOther, LEmpty>>,
   <<LSection, LOther, LEmpty>>,
   <<LSection, LDirectiveYes, LOther, LEmpty>>,
   <<LSection, LOther, LIndentedYes, LEmpty>>,
   <<LSection, LCommentedYes, LOther, LEmpty>>}

RECURSIVE TrimLeft(_)
TrimLeft(line) ==
  IF line # <<>> /\ line[1] = Space THEN TrimLeft(Tail(line)) ELSE line

RECURSIVE TrimRight(_)
TrimRight(line) ==
  IF line # <<>> /\ line[Len(line)] = Space
  THEN TrimRight(SubSeq(line, 1, Len(line) - 1)) ELSE line

TrimSpace(line) == TrimRight(TrimLeft(line))

\* strings.HasPrefix(s, word)
HasPrefix(s, word) == s # <<>> /\ s[1] = word

\* strings.Contains(content, word)
Contains(content, word) ==
  \E i \in 1..Len(content) : \E k \in 1..Len(content[i]) : content[i][k] = word

\* strings.HasSuffix(content, "\n")
EndsInNewline(content) == Len(content) >= 2 /\ content[Len(content)] = LEmpty

\* content + more
Cat(content, more) ==
  SubSeq(content, 1, Len(content) - 1)
  \o <<content[Len(content)] \o more[1]>> \o Tail(more)

IsDirectiveLine(line) == HasPrefix(TrimSpace(line), Directive)
NotDirectiveLine(line) == ~IsDirectiveLine(line)

\* strings.Join(lines, "\n") of no lines is the empty text
Join(lines) == IF lines = <<>> THEN EmptyText ELSE lines

\* strings.Replace(content, "[Resolve]", "[Resolve]\n" + newSetting, 1)
InjectAfterSection(content, newSetting) ==
  LET i == CHOOSE n \in 1..Len(content) :
             /\ \E k \in 1..Len(content[n]) : content[n][k] = Section
             /\ \A m \in 1..(n - 1) : \A k \in 1..Len(content[m]) : content[m][k] # Section
      k == CHOOSE n \in 1..Len(content[i]) :
             /\ content[i][n] = Section
             /\ \A m \in 1..(n - 1) : content[i][m] # Section
  IN SubSeq(content, 1, i - 1)
     \o <<SubSeq(content[i], 1, k),
          newSetting \o SubSeq(content[i], k + 1, Len(content[i]))>>
     \o SubSeq(content, i + 1, Len(content))

\* lines 210-242 of setDNSStubListener: the text that is written back
StubListenerText(content, value) ==
  LET newSetting == <<Directive, value>>
  IN IF value = ""
     THEN Join(SelectSeq(content, NotDirectiveLine))
     ELSE IF Contains(content, Directive)
     THEN [i \in 1..Len(content) |->
             IF IsDirectiveLine(content[i]) THEN newSetting ELSE content[i]]
     ELSE IF Contains(content, Section)
     THEN InjectAfterSection(content, newSetting)
     ELSE Cat(IF content # EmptyText /\ ~EndsInNewline(content)
              THEN Cat(content, <<LEmpty, LEmpty>>) ELSE content,
              <<LEmpty, LSection, newSetting, LEmpty>>)

\* file: the content of resolved.conf, NoFile when it does not exist
setDNSStubListener(value, file, readOk, writeOk) ==
  LET content == IF file = NoFile THEN EmptyText ELSE file[1]
  IN IF ~readOk /\ file # NoFile THEN [file |-> file, err |-> "read"]
     ELSE IF ~writeOk THEN [file |-> file, err |-> "write"]
     ELSE [file |-> File(StubListenerText(content, value)), err |-> "nil"]

\* systemd-resolved takes a line of the file as the setting when, trimmed,
\* it is the key followed by the value; the last such line counts
StubListenerOff(file) ==
  /\ file # NoFile
  /\ \E i \in 1..Len(file[1]) :
       /\ TrimSpace(file[1][i]) = LDirectiveNo
       /\ \A j \in (i + 1)..Len(file[1]) : ~IsDirectiveLine(file[1][j])

(***************************************************************************)
(* internal/dns: the files and services                                    *)
(***************************************************************************)
resolvedStubSymlink == "/run/systemd/resolve/stub-resolv.conf"
systemdResolveResolvConf == "/run/systemd/resolve/resolv.conf"
OtherResolvConf == "/run/resolvconf/resolv.conf"
RunPaths == {resolvedStubSymlink, systemdResolveResolvConf}

\* strings.Contains(target, "systemd") over the targets above
ContainsSystemd(target) == target \in RunPaths

\* /etc/resolv.conf: a symbolic link, a plain file, or absent
Symlink(target) == [kind |-> "symlink", target |-> target, text |-> ""]
Plain(text) == [kind |-> "file", target |-> "", text |-> text]
Absent == [kind |-> "absent", target |-> "", text |-> ""]

\* texts of resolver files: written by systemd-resolved ("resolved"), by the
\* administrator ("static"), or by DisableSystemdResolvedStub ("loopback":
\* "# Managed by PHPark" and nameserver 127.0.0.1)
Loopback == "loopback"

\* what a process that opens /etc/resolv.conf reads
ReadResolvConf(etc, run) ==
  IF etc.kind = "file" THEN etc.text
  ELSE IF etc.kind = "symlink"
  THEN IF etc.target \in RunPaths THEN run[etc.target] ELSE "static"
  ELSE "absent"

\* `tee /etc/resolv.conf`: tee opens the path for writing, which follows a
\* symbolic link and writes the file the link names
TeeResolvConf(etc, run, text) ==
  IF etc.kind = "symlink"
  THEN [etc |-> etc,
        run |-> IF etc.target \in RunPaths THEN [run EXCEPT ![etc.target] = text] ELSE run]
  ELSE [etc |-> Plain(text), run |-> run]

\* lines 189-194
buildDnsmasqUpstreamConf(run) ==
  IF run[systemdResolveResolvConf] # "absent" THEN "resolv-file" ELSE "public-servers"

\* lines 92-99
CheckSystemdResolvedConflict(active) == active

\* lines 103-106
IsSystemdResolvedStubDisabled(conf) == conf # NoFile

\* lines 82-86
checkLinuxDNS(fragment) == fragment

(***************************************************************************)
(* trust and untrust, one external call at a time                          *)
(***************************************************************************)
DisableSteps == {"d1", "d2", "d3", "d4"}
RevertSteps == {"r1", "r2", "r3", "r4", "r5"}

D(fn, op, ok) == L(fn, op, EmptyStr, ok)

DnsStep(lg, res, next) ==
  /\ log' = lg
  /\ result' = res
  /\ pc' = next
  /\ ncmds' = IF next = "idle" THEN ncmds + 1 ELSE ncmds
  /\ UNCHANGED siteVars

\* mutant of DisableNext: a failed step is passed over
DisableNextIgnoringFailure(ok, next) == next

\* a failed step of DisableSystemdResolvedStub returns its error to runTrust,
\* which prints a warning and goes on (part_001:1314-1318)
DisableNext(ok, next) == IF ok THEN next ELSE "setup"

\* a restart of systemd-resolved: it reads its config and publishes its
\* resolver files again; the upstream file only once it knows an upstream
RestartResolved(ok, published) ==
  IF ok
  THEN /\ resolvedActive' = TRUE
       /\ stubListener' = ~StubListenerOff(resolvedConf)
       /\ runResolve' = [runResolve EXCEPT
                           ![resolvedStubSymlink] = "resolved",
                           ![systemdResolveResolvConf] =
                              IF published THEN "resolved" ELSE "absent"]
  ELSE UNCHANGED <<resolvedActive, stubListener, runResolve>>

\* runTrust lines 1287-1312: load the config, look for the fragment, look
\* for the conflict, ask
TrustBegin ==
  /\ pc = "idle"
  /\ ncmds < MaxCmds
  /\ \E load \in BOOLEAN, ans \in BOOLEAN :
       /\ ~load => ans
       /\ ~CheckSystemdResolvedConflict(resolvedActive) => ans
       /\ Inject(Fault(load))
       /\ cmd' = Cmd("trust", EmptyStr, <<>>, EmptyStr, <<>>)
       /\ UNCHANGED <<resolvedConf, resolvedActive, stubListener, runResolve,
                      phpParkDnsmasqConf, etcResolvConf, domainConf>>
       /\ IF ~load
          THEN DnsStep(<<LoadConfigLog(FALSE)>>, "err_load_config", "idle")
          ELSE IF CheckSystemdResolvedConflict(resolvedActive) /\ ans
          THEN DnsStep(<<LoadConfigLog(TRUE), D("trust", "conflict", TRUE)>>, "running", "d1")
          ELSE DnsStep(<<LoadConfigLog(TRUE),
                         D("trust", "conflict", CheckSystemdResolvedConflict(resolvedActive))>>,
                       "running", "setup")

\* DisableSystemdResolvedStub step 1, lines 118-121
DisableDirective ==
  /\ pc = "d1"
  /\ \E readOk \in BOOLEAN, writeOk \in BOOLEAN :
       LET r == setDNSStubListener("no", resolvedConf, readOk, writeOk)
       IN /\ ~readOk => writeOk /\ resolvedConf # NoFile
          /\ Inject(Fault(readOk) + Fault(writeOk))
          /\ resolvedConf' = r.file
          /\ UNCHANGED <<cmd, resolvedActive, stubListener, runResolve,
                         phpParkDnsmasqConf, etcResolvConf, domainConf>>
          /\ DnsStep(Append(log, D("disable", "set_directive", r.err = "nil")),
                     "running", DisableNext(r.err = "nil", "d2"))

\* step 2, lines 123-127
DisableRestart ==
  /\ pc = "d2"
  /\ \E ok \in BOOLEAN, published \in BOOLEAN :
       /\ ~ok => published
       /\ Inject(Fault(ok))
       /\ RestartResolved(ok, published)
       /\ UNCHANGED <<cmd, resolvedConf, phpParkDnsmasqConf, etcResolvConf, domainConf>>
       /\ DnsStep(Append(log, D("disable", "restart_resolved", ok)),
                  "running", DisableNext(ok, "d3"))

\* step 3, lines 129-138
DisableUpstream ==
  /\ pc = "d3"
  /\ \E ok \in BOOLEAN :
       /\ Inject(Fault(ok))
       /\ phpParkDnsmasqConf' = IF ok THEN File(buildDnsmasqUpstreamConf(runResolve))
                                ELSE phpParkDnsmasqConf
       /\ UNCHANGED <<cmd, resolvedConf, resolvedActive, stubListener, runResolve,
                      etcResolvConf, domainConf>>
       /\ DnsStep(Append(log, D("disable", "write_upstream", ok)),
                  "running", DisableNext(ok, "d4"))

\* step 4, lines 140-157
DisableResolvConf ==
  /\ pc = "d4"
  /\ \E ok \in BOOLEAN :
       LET guard == etcResolvConf.kind = "symlink" /\ ContainsSystemd(etcResolvConf.target)
           t == TeeResolvConf(etcResolvConf, runResolve, Loopback)
       IN /\ ~guard => ok
          /\ Inject(Fault(ok))
          /\ etcResolvConf' = IF guard /\ ok THEN t.etc ELSE etcResolvConf
          /\ runResolve' = IF guard /\ ok THEN t.run ELSE runResolve
          /\ UNCHANGED <<cmd, resolvedConf, resolvedActive, stubListener,
                         phpParkDnsmasqConf, domainConf>>
          /\ DnsStep(IF guard THEN Append(log, D("disable", "write_resolv", ok)) ELSE log,
                     "running", "setup")

\* mutant of SetupWrites: the fragment of the upstream redirection is written
\* along with the base-domain fragment
SetupWritesMarker(lookPath, write) ==
  /\ domainConf' = (lookPath /\ write)
  /\ phpParkDnsmasqConf' = File("public-servers")

\* setupLinuxDNS lines 41-51: the base-domain fragment is written
SetupWrites(lookPath, write) ==
  /\ domainConf' = (lookPath /\ write)
  /\ UNCHANGED phpParkDnsmasqConf

\* runTrust lines 1324-1394: setupLinuxDNS unless the fragment was there,
\* restart dnsmasq, test the resolution
TrustSetup ==
  /\ pc = "setup"
  /\ \E lookPath \in BOOLEAN, write \in BOOLEAN, restart \in BOOLEAN,
        restart2 \in BOOLEAN :
       LET l0 == Append(log, D("trust", "check_dns", checkLinuxDNS(domainConf)))
       IN /\ checkLinuxDNS(domainConf) => lookPath /\ write /\ restart
          /\ ~lookPath => write /\ restart /\ restart2
          /\ ~write => restart /\ restart2
          /\ ~restart => restart2
          /\ Inject(Fault(lookPath) + Fault(write) + Fault(restart) + Fault(restart2))
          /\ UNCHANGED <<cmd, resolvedConf, resolvedActive, stubListener, runResolve,
                         etcResolvConf>>
          /\ IF checkLinuxDNS(domainConf)
             THEN /\ UNCHANGED <<domainConf, phpParkDnsmasqConf>>
                  /\ DnsStep(l0 \o <<D("trust", "restart_dnsmasq", restart2),
                                     D("trust", "test_resolution", TRUE)>>, "ok", "idle")
             ELSE IF ~lookPath
             THEN /\ UNCHANGED <<domainConf, phpParkDnsmasqConf>>
                  /\ DnsStep(Append(l0, D("setup", "look_path", FALSE)), "err_setup_dns", "idle")
             ELSE /\ SetupWrites(lookPath, write)
                  /\ IF ~write
                     THEN DnsStep(l0 \o <<D("setup", "look_path", TRUE),
                                          D("setup", "write_domain", FALSE)>>,
                                  "err_setup_dns", "idle")
                     ELSE IF ~restart
                     THEN DnsStep(l0 \o <<D("setup", "look_path", TRUE),
                                          D("setup", "write_domain", TRUE),
                                          D("setup", "restart_dnsmasq", FALSE)>>,
                                  "err_setup_dns", "idle")
                     ELSE DnsStep(l0 \o <<D("setup", "look_path", TRUE),
                                          D("setup", "write_domain", TRUE),
                                          D("setup", "restart_dnsmasq", TRUE),
                                          D("trust", "restart_dnsmasq", restart2),
                                          D("trust", "test_resolution", TRUE)>>, "ok", "idle")

\* runStatus line 1261: dns.CheckDNS
CheckDNS ==
  /\ pc = "idle"
  /\ ncmds < MaxCmds
  /\ Inject(0)
  /\ cmd' = Cmd("status", EmptyStr, <<>>, EmptyStr, <<>>)
  /\ UNCHANGED <<resolvedConf, resolvedActive, stubListener, runResolve,
                 phpParkDnsmasqConf, etcResolvConf, domainConf>>
  /\ DnsStep(<<LoadConfigLog(TRUE), D("status", "check_dns", checkLinuxDNS(domainConf))>>,
             IF checkLinuxDNS(domainConf) THEN "configured" ELSE "not_configured", "idle")

\* runUntrust lines 1407-1418 and removeLinuxDNS lines 61-69: load the
\* config, remove the base-domain fragment, look for the marker
UntrustBegin ==
  /\ pc = "idle"
  /\ ncmds < MaxCmds
  /\ \E load \in BOOLEAN, rm \in BOOLEAN :
       LET marker == IsSystemdResolvedStubDisabled(phpParkDnsmasqConf)
       IN /\ ~load => rm
          /\ Inject(Fault(load) + Fault(rm))
          /\ cmd' = Cmd("untrust", EmptyStr, <<>>, EmptyStr, <<>>)
          /\ UNCHANGED <<resolvedConf, resolvedActive, stubListener, runResolve,
                         phpParkDnsmasqConf, etcResolvConf>>
          /\ IF ~load
             THEN /\ UNCHANGED domainConf
                  /\ DnsStep(<<LoadConfigLog(FALSE)>>, "err_load_config", "idle")
             ELSE IF ~rm
             THEN /\ UNCHANGED domainConf
                  /\ DnsStep(<<LoadConfigLog(TRUE), D("remove", "rm_domain", FALSE)>>,
                             "err_remove_dns", "idle")
             ELSE /\ domainConf' = FALSE
                  /\ DnsStep(<<LoadConfigLog(TRUE), D("remove", "rm_domain", TRUE),
                               D("remove", "marker", marker)>>,
                             "running", IF marker THEN "r1" ELSE "end")

\* RevertSystemdResolvedStub step 1, lines 163-166
RevertDirective ==
  /\ pc = "r1"
  /\ \E readOk \in BOOLEAN, writeOk \in BOOLEAN :
       LET r == setDNSStubListener("", resolvedConf, readOk, writeOk)
       IN /\ ~readOk => writeOk /\ resolvedConf # NoFile
          /\ Inject(Fault(readOk) + Fault(writeOk))
          /\ resolvedConf' = r.file
          /\ UNCHANGED <<cmd, resolvedActive, stubListener, runResolve,
                         phpParkDnsmasqConf, etcResolvConf, domainConf>>
          /\ DnsStep(Append(log, D("revert", "set_directive", r.err = "nil")),
                     "running", IF r.err = "nil" THEN "r2" ELSE "end")

\* step 2, lines 168-171
RevertRestart ==
  /\ pc = "r2"
  /\ \E ok \in BOOLEAN, published \in BOOLEAN :
       /\ ~ok => published
       /\ Inject(Fault(ok))
       /\ RestartResolved(ok, published)
       /\ UNCHANGED <<cmd, resolvedConf, phpParkDnsmasqConf, etcResolvConf, domainConf>>
       /\ DnsStep(Append(log, D("revert", "restart_resolved", ok)),
                  "running", IF ok THEN "r3" ELSE "end")

\* step 3, lines 173-174: the result of rm is not looked at
RevertUpstream ==
  /\ pc = "r3"
  /\ \E ok \in BOOLEAN :
       /\ Inject(Fault(ok))
       /\ phpParkDnsmasqConf' = IF ok THEN NoFile ELSE phpParkDnsmasqConf
       /\ UNCHANGED <<cmd, resolvedConf, resolvedActive, stubListener, runResolve,
                      etcResolvConf, domainConf>>
       /\ DnsStep(Append(log, D("revert", "rm_upstream", ok)), "running", "r4")

\* step 4, line 177: rm -f /etc/resolv.conf, the result is not looked at
RevertRemoveResolvConf ==
  /\ pc = "r4"
  /\ \E ok \in BOOLEAN :
       /\ Inject(Fault(ok))
       /\ etcResolvConf' = IF ok THEN Absent ELSE etcResolvConf
       /\ UNCHANGED <<cmd, resolvedConf, resolvedActive, stubListener, runResolve,
                      phpParkDnsmasqConf, domainConf>>
       /\ DnsStep(Append(log, D("revert", "rm_resolv", ok)), "running", "r5")

\* step 4, lines 178-180: ln -sf of the stub file
RevertLink ==
  /\ pc = "r5"
  /\ \E ok \in BOOLEAN :
       /\ Inject(Fault(ok))
       /\ etcResolvConf' = IF ok THEN Symlink(resolvedStubSymlink) ELSE etcResolvConf
       /\ UNCHANGED <<cmd, resolvedConf, resolvedActive, stubListener, runResolve,
                      phpParkDnsmasqConf, domainConf>>
       /\ DnsStep(Append(log, D("revert", "link_resolv", ok)), "running", "end")

\* a failed step of the revert
RevertFailed(lg) ==
  \E i \in 1..Len(lg) :
    /\ lg[i].fn = "revert"
    /\ lg[i].op \in {"set_directive", "restart_resolved", "link_resolv"}
    /\ ~lg[i].ok

\* mutant of UntrustResult: the error of the revert is returned
UntrustResultStrict(lg) == IF RevertFailed(lg) THEN "err_revert" ELSE "ok"

\* removeLinuxDNS lines 70-79: the error of the revert is printed, nil is returned
UntrustResult(lg) == "ok"

\* removeLinuxDNS lines 76-79: restart dnsmasq, the result is not looked at
UntrustEnd ==
  /\ pc = "end"
  /\ \E ok \in BOOLEAN :
       /\ Inject(Fault(ok))
       /\ UNCHANGED <<cmd, resolvedConf, resolvedActive, stubListener, runResolve,
                      phpParkDnsmasqConf, etcResolvConf, domainConf>>
       /\ DnsStep(Append(log, D("remove", "restart_dnsmasq", ok)), UntrustResult(log), "idle")

\* the resolver as the tool finds it: no fragment of its own
DnsIdle ==
  /\ resolvedConf = NoFile
  /\ resolvedActive = TRUE
  /\ stubListener = TRUE
  /\ runResolve = [p \in RunPaths |-> "resolved"]
  /\ phpParkDnsmasqConf = NoFile
  /\ etcResolvConf = Symlink(resolvedStubSymlink)
  /\ domainConf = FALSE
  /\ pc = "idle"

DnsInit ==
  /\ sitesFile = <<>>
  /\ configFile = DefaultConfig
  /\ stagedConf = [n \in AllNames |-> NoFile]
  /\ sitesAvailable = [n \in AllNames |-> NoFile]
  /\ sitesEnabled = {}
  /\ defaultSite = TRUE
  /\ certFiles = {}
  /\ keyFiles = {}
  /\ publicDirs = {}
  /\ installed = {V82}
  /\ cmd = NoCmd
  /\ log = <<>>
  /\ result = "none"
  /\ ncmds = 0
  /\ faults = 0
  /\ resolvedConf \in {NoFile} \cup {File(t) : t \in ResolvedTexts}
  /\ resolvedActive \in BOOLEAN
  /\ stubListener = resolvedActive
  /\ runResolve \in {[p \in RunPaths |->
                        IF p = resolvedStubSymlink THEN "resolved" ELSE u] :
                     u \in {"resolved", "absent"}}
  /\ phpParkDnsmasqConf = NoFile
  /\ etcResolvConf \in {Symlink(resolvedStubSymlink), Symlink(systemdResolveResolvConf),
                        Symlink(OtherResolvConf), Plain("static")}
  /\ domainConf = FALSE
  /\ pc = "idle"

DnsNext ==
  \/ TrustBegin \/ DisableDirective \/ DisableRestart \/ DisableUpstream
  \/ DisableResolvConf \/ TrustSetup \/ CheckDNS
  \/ UntrustBegin \/ RevertDirective \/ RevertRestart \/ RevertUpstream
  \/ RevertRemoveResolvConf \/ RevertLink \/ UntrustEnd

DnsSpec == DnsInit /\ [][DnsNext]_vars

(***************************************************************************)
(* The system                                                              *)
(***************************************************************************)
Loads == {"ok", "sites", "config"}
ParkLoads == Loads \cup {"nodir"}
UseArgs == {V82, V831}

RegisteredNames(sites) == {sites[i].Name : i \in 1..Len(sites)}

\* one outcome per generated site, at most k failed calls in all
RECURSIVE SumFaults(_, _)
SumFaults(envs, names) ==
  IF names = {} THEN 0
  ELSE LET n == CHOOSE m \in names : TRUE
       IN GenFaults(envs[n]) + SumFaults(envs, names \ {n})

GenEnvsFor(names, k) ==
  {envs \in [names -> {e \in GenEnvs : GenFaults(e) <= k}] : SumFaults(envs, names) <= k}

Init ==
  /\ sitesFile = <<>>
  /\ configFile \in {[DefaultConfig EXCEPT !.UseHTTPS = h] : h \in BOOLEAN}
  /\ stagedConf = [n \in AllNames |-> NoFile]
  /\ sitesAvailable = [n \in AllNames |-> NoFile]
  /\ sitesEnabled = {}
  /\ defaultSite = TRUE
  /\ certFiles = {}
  /\ keyFiles = {}
  /\ publicDirs = {<<NameS, NameA>>}
  /\ installed = {V82}
  /\ cmd = NoCmd
  /\ log = <<>>
  /\ result = "none"
  /\ ncmds = 0
  /\ faults = 0
  /\ DnsIdle

Park ==
  /\ ncmds < MaxCmds
  /\ \E path \in ParkDirs :
       \/ \E load \in ParkLoads \ {"ok"} :
            /\ Inject(1)
            /\ runPark(path, DirListing(path), load, <<>>, TRUE)
       \/ \E envs \in GenEnvsFor(ParkGenerated(DirListing(path), sitesFile),
                                 MaxFaults - faults) :
            \E save \in BOOLEAN :
              /\ Inject(SumFaults(envs, DOMAIN envs) + Fault(save))
              /\ runPark(path, DirListing(path), "ok", envs, save)

Link ==
  /\ ncmds < MaxCmds
  /\ \E in \in LinkInputs, load \in Loads, save \in BOOLEAN, env \in GenEnvs :
       /\ load # "ok" => save /\ env = GenOK
       /\ ~save => env = GenOK
       /\ Inject(Fault(load = "ok") + Fault(save) + GenFaults(env))
       /\ runLink(in[1], in[2], load, save, env)

Unlink ==
  /\ ncmds < MaxCmds
  /\ \E siteName \in AllNames, load \in Loads, rmStaged \in BOOLEAN,
        renv \in RemoveEnvs, save \in BOOLEAN :
       /\ load # "ok" => rmStaged /\ renv = RemoveOK /\ save
       /\ ~rmStaged => renv = RemoveOK /\ save
       /\ Inject(Fault(load = "ok") + Fault(rmStaged) + RemoveFaults(renv) + Fault(save))
       /\ runUnlink(siteName, load, rmStaged, renv, save)

Rebuild ==
  /\ ncmds < MaxCmds
  /\ \/ \E load \in Loads \ {"ok"} :
          /\ Inject(1)
          /\ runRebuild(load, <<>>)
     \/ \E envs \in GenEnvsFor(RegisteredNames(sitesFile), MaxFaults - faults) :
          /\ Inject(SumFaults(envs, DOMAIN envs))
          /\ runRebuild("ok", envs)

Secure ==
  /\ ncmds < MaxCmds
  /\ \E siteName \in AllNames, load \in Loads, certOutcome \in CertOutcomes,
        save \in BOOLEAN, env \in GenEnvs :
       /\ load # "ok" => certOutcome = "ok" /\ save /\ env = GenOK
       /\ certOutcome # "ok" => save /\ env = GenOK
       /\ ~save => env = GenOK
       /\ Inject(Fault(load = "ok") + Fault(certOutcome = "ok") + Fault(save)
                 + GenFaults(env))
       /\ runSecure(siteName, load, certOutcome, save, env)

Unsecure ==
  /\ ncmds < MaxCmds
  /\ \E siteName \in AllNames, load \in Loads, rmOutcome \in RmCertOutcomes,
        save \in BOOLEAN, env \in GenEnvs :
       /\ load # "ok" => rmOutcome = "ok" /\ save /\ env = GenOK
       /\ ~save => env = GenOK
       /\ Inject(Fault(load = "ok") + Fault(rmOutcome = "ok") + Fault(save)
                 + GenFaults(env))
       /\ runUnsecure(siteName, load, rmOutcome, save, env)

Use ==
  /\ ncmds < MaxCmds
  /\ \E versionArg \in UseArgs, siteName \in AllNames \cup {EmptyStr},
        install \in InstallOutcomes, load \in Loads, save \in BOOLEAN :
       /\ load # "ok" => save
       /\ ValidatePHPVersion(FormatVersion(versionArg), installed) => install = "declined"
       /\ install \in {"install_failed", "undetected"} => load = "ok" /\ save
       /\ siteName = EmptyStr => load # "sites"
       /\ Inject(Fault(install \in {"declined", "installed"}) + Fault(load = "ok")
                 + Fault(save))
       /\ runUse(versionArg, siteName, install, load, save)

Next == Park \/ Link \/ Unlink \/ Rebuild \/ Secure \/ Unsecure \/ Use

Spec == Init /\ [][Next]_vars

(***************************************************************************)
(* Properties                                                              *)
(***************************************************************************)
HasEntry(lg, e) == \E i \in 1..Len(lg) : lg[i] = e
Saved(lg) == HasEntry(lg, SaveLog(TRUE))

\* C1: within DeployNginxConfig a reload is invoked only directly after a
\* passed syntax check of the same call, and a failed syntax check is followed
\* by the error return of the call, with no reload.
C1_ReloadOnlyAfterPassedTest ==
  \A i \in 1..Len(log) :
    log[i].fn = "deploy" =>
      /\ log[i].op = "reload" =>
           i > 1 /\ log[i - 1] = L("deploy", "test", log[i].site, TRUE)
      /\ (log[i].op = "test" /\ ~log[i].ok) =>
           i < Len(log) /\ log[i + 1] = L("generate", "deploy", log[i].site, FALSE)

\* a deploy whose syntax check failed
C1_Witness == \E i \in 1..Len(log) : log[i].fn = "deploy" /\ log[i].op = "test" /\ ~log[i].ok

\* the records the last command put into the registry with AddSite, given the
\* registry and config it loaded
Upserted(c, sites, cfg) ==
  IF c.op = "link" THEN {LinkSite(LinkName(c.name, c.path), c.path, cfg)}
  ELSE IF c.op = "park"
  THEN {ParkSite(n, c.path, cfg) : n \in ParkGenerated(c.entries, sites)}
  ELSE IF c.op = "secure"
  THEN {[sites[i] EXCEPT !.Secured = TRUE] : i \in {j \in 1..Len(sites) : sites[j].Name = c.name}}
  ELSE IF c.op = "unsecure"
  THEN {[sites[i] EXCEPT !.Secured = FALSE] : i \in {j \in 1..Len(sites) : sites[j].Name = c.name}}
  ELSE IF c.op = "use"
  THEN {[sites[i] EXCEPT !.PHPVersion = FormatVersion(c.version)] :
          i \in {j \in 1..Len(sites) : sites[j].Name = c.name}}
  ELSE {}

\* C2: after a command has saved the registry it changed with upsert, looking
\* up the name of each upserted record returns that record; and when the name
\* was registered before, the registry has the same length and the record is
\* at the position of the one it replaced.
C2_FindAfterUpsert ==
  [][Saved(log') =>
       \A s \in Upserted(cmd', sitesFile, configFile) :
         /\ FindSite(sitesFile', s.Name) # 0
         /\ sitesFile'[FindSite(sitesFile', s.Name)] = s
         /\ FindSite(sitesFile, s.Name) # 0 =>
              /\ Len(sitesFile') = Len(sitesFile)
              /\ FindSite(sitesFile', s.Name) = FindSite(sitesFile, s.Name)]_vars

\* secure has replaced the record of a registered site, in a registry of two
C2_Witness ==
  /\ cmd.op = "secure"
  /\ Saved(log)
  /\ Len(sitesFile) = 2
  /\ sitesFile[FindSite(sitesFile, cmd.name)].Secured

\* C3: no two records of the persisted registry have the same name.
C3_UniqueNames ==
  \A i, j \in 1..Len(sitesFile) : sitesFile[i].Name = sitesFile[j].Name => i = j

\* use has put back the record of a registered site, in a registry of two
C3_Witness ==
  /\ cmd.op = "use"
  /\ cmd.name # EmptyStr
  /\ Saved(log)
  /\ Len(sitesFile) = 2

\* C4: unlink of a name that is not in the (readable) registry returns the
\* not-found error and changes neither the registry, nor the staged vhost
\* files, nor nginx's sites-available and sites-enabled.
C4_UnlinkUnknown ==
  [][(/\ cmd'.op = "unlink"
      /\ cmd'.name \notin RegisteredNames(sitesFile)
      /\ result' # "err_load_sites")
     => /\ result' = "err_not_found"
        /\ UNCHANGED <<sitesFile, stagedConf, sitesAvailable, sitesEnabled, defaultSite>>
        /\ \A i \in 1..Len(log') : log'[i].fn = "cmd"]_vars

\* unlink of an unregistered name, while another site is registered and deployed
C4_Witness ==
  /\ cmd.op = "unlink"
  /\ result = "err_not_found"
  /\ sitesFile # <<>>
  /\ sitesEnabled # {}

\* C5: every record of the registry has a name that is not empty and holds no
\* path separator.
C5_NamesValid ==
  \A i \in 1..Len(sitesFile) :
    sitesFile[i].Name # EmptyStr /\ "/" \notin Range(sitesFile[i].Name)

\* positions in a call sequence: attempts to write the registry, and calls
\* that regenerate, deploy or remove a site's vhost
SaveAttempts(lg) == {i \in 1..Len(lg) : lg[i].fn = "cmd" /\ lg[i].op = "save_sites"}
Reconciles(lg) == {i \in 1..Len(lg) : lg[i].fn \in {"generate", "deploy", "remove"}}
Mutating == {"park", "link", "unlink", "secure", "unsecure", "use", "rebuild"}

LoadFailedAt(lg, i) ==
  lg[i].fn = "cmd" /\ lg[i].op \in {"load_sites", "load_config"} /\ ~lg[i].ok
WriteFailedAt(lg, i) == lg[i].fn = "generate" /\ lg[i].op = "write" /\ ~lg[i].ok
TestFailedAt(lg, i) == lg[i].fn \in {"deploy", "remove"} /\ lg[i].op = "test" /\ ~lg[i].ok
\* entries that record the return of a call, not a further step
ReturnMarks == {"deploy", "remove_nginx"}

\* C7 as claimed: a failed load, a failed vhost write or a failed proxy
\* validation ends the command with an error, and no later step is taken.
C7_StructuralFailureAborts ==
  \A i \in 1..Len(log) :
    (LoadFailedAt(log, i) \/ WriteFailedAt(log, i) \/ TestFailedAt(log, i)) =>
      /\ result # "ok"
      /\ \A j \in (i + 1)..Len(log) : log[j].op \in ReturnMarks

\* C7 amended: a failed registry or config load ends the command at once with
\* an error and with the registry, config, vhost files, proxy directories and
\* certificates unchanged.  A failed vhost write ends the generation for that
\* site (no deploy for it); secure and unsecure then return an error, park,
\* link and rebuild go on and do not fail because of it.  A failed proxy
\* validation ends that deploy or removal before the reload, but the command
\* goes on with its later steps and does not fail because of it.
C7_FailureHandling ==
  [][\A i \in 1..Len(log') :
       /\ LoadFailedAt(log', i) =>
            /\ i = Len(log')
            /\ result' \in {"err_load_sites", "err_load_config"}
            /\ UNCHANGED <<sitesFile, configFile, stagedConf, sitesAvailable, sitesEnabled,
                           defaultSite, certFiles, keyFiles>>
       /\ WriteFailedAt(log', i) =>
            /\ \A j \in (i + 1)..Len(log') :
                 log'[j].fn \in {"generate", "deploy"} => log'[j].site # log'[i].site
            /\ cmd'.op \in {"secure", "unsecure"} => i = Len(log') /\ result' = "err_nginx"
            /\ cmd'.op \in {"link", "rebuild"} => result' = "ok"
            /\ cmd'.op = "park" => result' \in {"ok", "err_save"}
       /\ TestFailedAt(log', i) =>
            /\ i + 2 <= Len(log')
            /\ log'[i].fn = "deploy" =>
                 /\ log'[i + 1] = L("generate", "deploy", log'[i].site, FALSE)
                 /\ log'[i + 2].fn = "generate"
                 /\ log'[i + 2].op \in {"startfpm", "startnginx"}
            /\ log'[i].fn = "remove" =>
                 /\ log'[i + 1] = L("cmd", "remove_nginx", log'[i].site, FALSE)
                 /\ log'[i + 2] = L("cmd", "remove_site", log'[i].site, TRUE)
            /\ cmd'.op \in {"link", "secure", "unsecure", "rebuild"} => result' = "ok"
            /\ cmd'.op \in {"park", "unlink"} => result' \in {"ok", "err_save"}]_vars

\* secure went on after a failed proxy validation and returned success
C7_Witness ==
  /\ cmd.op = "secure"
  /\ result = "ok"
  /\ \E i \in 1..Len(log) : TestFailedAt(log, i)

DeployFailed(lg) ==
  \E i \in 1..Len(lg) : lg[i].fn = "generate" /\ lg[i].op = "deploy" /\ ~lg[i].ok

\* C8: when link, secure or unsecure has updated the registry and the deploy
\* of that site then fails, the command still returns success (the failure
\* is a warning) and the persisted registry holds the update.
C8_UpdateKept ==
  (cmd.op \in {"link", "secure", "unsecure"} /\ DeployFailed(log)) =>
    LET n == IF cmd.op = "link" THEN LinkName(cmd.name, cmd.path) ELSE cmd.name
        i == FindSite(sitesFile, n)
    IN /\ result = "ok"
       /\ i # 0
       /\ cmd.op = "link" => sitesFile[i] = LinkSite(n, cmd.path, configFile)
       /\ cmd.op = "secure" => sitesFile[i].Secured
       /\ cmd.op = "unsecure" => ~sitesFile[i].Secured

\* link registered a site whose deploy failed
C8_Witness == cmd.op = "link" /\ DeployFailed(log)

IsWrite(e) == e.fn = "generate" /\ e.op = "write"

\* C9: after a rebuild all of whose steps succeeded, every site of the
\* registry has its staged vhost file, its sites-available file and its
\* sites-enabled reference, the files holding the text rendered from the
\* site's record and the config; the sites were visited in registry order.
C9_RebuildConverges ==
  (cmd.op = "rebuild" /\ result = "ok" /\ \A i \in 1..Len(log) : log[i].ok) =>
    /\ \A i \in 1..Len(sitesFile) :
         LET text == File(RenderSite(sitesFile[i], configFile, publicDirs))
         IN /\ stagedConf[sitesFile[i].Name] = text
            /\ sitesAvailable[sitesFile[i].Name] = text
            /\ sitesFile[i].Name \in sitesEnabled
    /\ LET w == SelectSeq(log, IsWrite)
       IN /\ Len(w) = Len(sitesFile)
          /\ \A i \in 1..Len(w) : w[i].site = sitesFile[i].Name

\* a successful rebuild of a registry of two sites
C9_Witness ==
  /\ cmd.op = "rebuild"
  /\ result = "ok"
  /\ \A i \in 1..Len(log) : log[i].ok
  /\ Len(sitesFile) = 2

\* C10 as claimed: a park that returns success leaves the registry holding
\* what it held before plus one record, of kind park and with an empty
\* version override, for every listed entry that is a directory, is not hidden
\* and was not registered; no other entry of the listing is registered.
C10_ParkRegistersExactly ==
  [][(cmd'.op = "park" /\ result' = "ok") =>
       LET new == {cmd'.entries[i].Name :
                     i \in {j \in 1..Len(cmd'.entries) :
                              /\ cmd'.entries[j].IsDir
                              /\ cmd'.entries[j].Name[1] # "."
                              /\ cmd'.entries[j].Name \notin RegisteredNames(sitesFile)}}
       IN /\ RegisteredNames(sitesFile') = RegisteredNames(sitesFile) \cup new
          /\ Len(sitesFile') = Len(sitesFile) + Cardinality(new)
          /\ \A i \in 1..Len(sitesFile) : sitesFile'[i] = sitesFile[i]
          /\ \A i \in (Len(sitesFile) + 1)..Len(sitesFile') :
               /\ sitesFile'[i].Type = "park"
               /\ sitesFile'[i].PHPVersion = EmptyStr
               /\ sitesFile'[i].Path = Append(cmd'.path, sitesFile'[i].Name)]_vars

(***************************************************************************)
(* The commands that work on registered sites, started from a registry     *)
(* that holds one linked and deployed site                                 *)
(***************************************************************************)
\* the state a successful `link` run in dir leaves behind
InitRegistered ==
  \E in \in {i \in LinkInputs : i[1] = EmptyStr}, h \in BOOLEAN :
    LET cfg == [DefaultConfig EXCEPT !.UseHTTPS = h]
        site == LinkSite(LinkName(in[1], in[2]), in[2], cfg)
        text == File(RenderSite(site, cfg, {<<NameS, NameA>>}))
    IN /\ sitesFile = <<site>>
       /\ configFile = cfg
       /\ stagedConf = [n \in AllNames |-> IF n = site.Name THEN text ELSE NoFile]
       /\ sitesAvailable = [n \in AllNames |-> IF n = site.Name THEN text ELSE NoFile]
       /\ sitesEnabled = {site.Name}
       /\ defaultSite = FALSE
       /\ certFiles = {}
       /\ keyFiles = {}
       /\ publicDirs = {<<NameS, NameA>>}
       /\ installed = {V82}
       /\ cmd = NoCmd
       /\ log = <<>>
       /\ result = "none"
       /\ ncmds = 0
       /\ faults = 0
       /\ DnsIdle

SiteNext == Secure \/ Unsecure \/ Use \/ Rebuild

SiteSpec == InitRegistered /\ [][SiteNext]_vars

\* C11: a secure that generated the certificate and returned success leaves
\* the certificate and the key file of the site, the persisted record with
\* Secured set, and a staged vhost text that names the certificate and key
\* paths; an unsecure of a secured site that removed the certificate and
\* returned success leaves neither file, the persisted record with Secured
\* cleared, and a staged vhost text without certificate path.
C11_SecureRoundTrip ==
  LET i == FindSite(sitesFile, cmd.name)
  IN /\ (/\ cmd.op = "secure"
         /\ result = "ok"
         /\ HasEntry(log, L("cmd", "gen_cert", cmd.name, TRUE)))
        => /\ cmd.name \in certFiles
           /\ cmd.name \in keyFiles
           /\ i # 0
           /\ sitesFile[i].Secured
           /\ stagedConf[cmd.name] # NoFile
           /\ stagedConf[cmd.name][1].UseSSL
           /\ stagedConf[cmd.name][1].CertPath = CertPathOf(cmd.name)
           /\ stagedConf[cmd.name][1].KeyPath = KeyPathOf(cmd.name)
     /\ (/\ cmd.op = "unsecure"
         /\ result = "ok"
         /\ HasEntry(log, L("cmd", "rm_cert", cmd.name, TRUE)))
        => /\ cmd.name \notin certFiles
           /\ cmd.name \notin keyFiles
           /\ i # 0
           /\ ~sitesFile[i].Secured
           /\ stagedConf[cmd.name] # NoFile
           /\ ~stagedConf[cmd.name][1].UseSSL
           /\ stagedConf[cmd.name][1].CertPath = NoPath

\* an unsecure that followed a secure of the same site: the record went from
\* unsecured to secured and back, the certificate was made and removed
C11_Witness ==
  /\ cmd.op = "unsecure"
  /\ result = "ok"
  /\ HasEntry(log, L("cmd", "rm_cert", cmd.name, TRUE))
  /\ ~configFile.UseHTTPS
  /\ ncmds = 2
  /\ cmd.name \notin certFiles

\* the sites whose vhost text the last command wrote
Written(lg) == {lg[i].site : i \in {j \in 1..Len(lg) : IsWrite(lg[j]) /\ lg[j].ok}}

\* C12: `use <version>` without a site changes, of the registry and the
\* config, only the config's default version; the registry, every record of
\* it, and every vhost file stay as they were.  Whenever a command renders a
\* site whose override is empty, the text names the pool socket of the default
\* version the config holds at that time.
C12_LateBinding ==
  [][/\ (cmd'.op = "use" /\ cmd'.name = EmptyStr) =>
          /\ UNCHANGED <<sitesFile, stagedConf, sitesAvailable, sitesEnabled>>
          /\ configFile' \in {configFile,
                              [configFile EXCEPT !.DefaultPHP = FormatVersion(cmd'.version)]}
          /\ result' = "ok" => configFile'.DefaultPHP = FormatVersion(cmd'.version)
     /\ \A i \in 1..Len(sitesFile') :
          (sitesFile'[i].Name \in Written(log') /\ sitesFile'[i].PHPVersion = EmptyStr) =>
            stagedConf'[sitesFile'[i].Name][1].PHPSocket
              = GetPHPSocket(configFile'.DefaultPHP)]_vars

\* a rebuild after the default was changed to 8.3: the site, whose record
\* still has an empty override, is rendered with the 8.3 socket
C12_Witness ==
  /\ cmd.op = "rebuild"
  /\ configFile.DefaultPHP = V83
  /\ \E i \in 1..Len(sitesFile) :
       /\ sitesFile[i].PHPVersion = EmptyStr
       /\ sitesFile[i].Name \in Written(log)
       /\ stagedConf[sitesFile[i].Name][1].PHPSocket = GetPHPSocket(V83)

\* the version a site runs with
EffectiveVersion(site, cfg) ==
  IF site.PHPVersion = EmptyStr THEN cfg.DefaultPHP ELSE site.PHPVersion

\* C13 as claimed: when `use` has returned success, the deployed vhost of
\* every site it affected (the named site, or with no site argument every
\* site with an empty override) names the pool socket of the new version.
C13_UseSwitchesAtOnce ==
  (cmd.op = "use" /\ result = "ok") =>
    \A i \in 1..Len(sitesFile) :
      (/\ sitesAvailable[sitesFile[i].Name] # NoFile
       /\ \/ sitesFile[i].Name = cmd.name
          \/ cmd.name = EmptyStr /\ sitesFile[i].PHPVersion = EmptyStr)
      => sitesAvailable[sitesFile[i].Name][1].PHPSocket
           = GetPHPSocket(EffectiveVersion(sitesFile[i], configFile))

(***************************************************************************)
(* Properties of trust and untrust                                         *)
(***************************************************************************)
DisableFailed(lg) == \E i \in 1..Len(lg) : lg[i].fn = "disable" /\ ~lg[i].ok

\* a trust has returned whose DisableSystemdResolvedStub ran to its end
\* without error, and the stub listener is off
FirstRunDone ==
  /\ pc = "idle"
  /\ cmd.op = "trust"
  /\ result = "ok"
  /\ HasEntry(log, D("disable", "write_upstream", TRUE))
  /\ ~DisableFailed(log)
  /\ ~stubListener

\* C14 as claimed: when trust is run again after a run that disabled the
\* stub, the guard finds the stub inactive and DisableSystemdResolvedStub is
\* not entered, so that nothing of the resolver is touched by it.
C14_SecondDisableSkipped ==
  [][(FirstRunDone /\ cmd'.op = "trust") =>
       /\ pc' \notin DisableSteps
       /\ ~HasEntry(log', D("trust", "conflict", TRUE))]_vars

\* the resolver with /etc/resolv.conf linked to the upstream file of
\* systemd-resolved
DnsLinkInit == DnsInit /\ etcResolvConf = Symlink(systemdResolveResolvConf)

DnsLinkSpec == DnsLinkInit /\ [][DnsNext]_vars

\* C15 as claimed, for /etc/resolv.conf starting as a link to
\* /run/systemd/resolve/resolv.conf: when no call has failed and the revert
\* has run to its end (which needs the marker, so a disable ran before it),
\* /etc/resolv.conf is again a link to that file.
C15_RevertRestoresLink ==
  (/\ cmd.op = "untrust"
   /\ pc = "idle"
   /\ faults = 0
   /\ HasEntry(log, D("revert", "link_resolv", TRUE)))
  => etcResolvConf = Symlink(systemdResolveResolvConf)

RECURSIVE IsSubSeq(_, _)
IsSubSeq(a, b) ==
  IF a = <<>> THEN TRUE
  ELSE IF b = <<>> THEN FALSE
  ELSE IF Head(a) = Head(b) THEN IsSubSeq(Tail(a), Tail(b))
  ELSE IsSubSeq(a, Tail(b))

\* C16 as claimed: a successful setDNSStubListener("no") leaves a file with
\* a line that, trimmed, is DNSStubListener=no, and the lines of the prior
\* content other than directive lines are all there, in their order.
C16_DirectiveWritten ==
  [][(pc = "d1" /\ pc' = "d2") =>
       LET prior == IF resolvedConf = NoFile THEN EmptyText ELSE resolvedConf[1]
           new == resolvedConf'[1]
       IN /\ \E i \in 1..Len(new) : TrimSpace(new[i]) = LDirectiveNo
          /\ IsSubSeq(SelectSeq(prior, NotDirectiveLine), new)]_vars

\* C17: the revert is entered only from removeLinuxDNS and only when the
\* marker file exists; whatever the revert did, once the base-domain
\* fragment was removed untrust returns success and the fragment is absent.
C17_RevertNeverBlocks ==
  [][/\ pc' = "r1" => (pc = "idle" /\ cmd'.op = "untrust"
                        /\ IsSystemdResolvedStubDisabled(phpParkDnsmasqConf))
     /\ (pc = "idle" /\ cmd'.op = "untrust"
         /\ ~IsSystemdResolvedStubDisabled(phpParkDnsmasqConf)) => pc' \notin RevertSteps
     /\ (pc' \in RevertSteps \ {"r1"}) => pc \in RevertSteps
     /\ (/\ cmd'.op = "untrust"
         /\ pc' = "idle"
         /\ HasEntry(log', D("remove", "rm_domain", TRUE)))
        => (result' = "ok" /\ ~domainConf')]_vars

\* untrust has returned success although a step of the revert failed
C17_Witness ==
  /\ cmd.op = "untrust"
  /\ pc = "idle"
  /\ RevertFailed(log)
  /\ result = "ok"
  /\ ~domainConf

\* C18 as claimed: no step of setupLinuxDNS, removeLinuxDNS or checkLinuxDNS
\* changes the marker file, resolved.conf or /etc/resolv.conf.
C18_DomainOpsIndependent ==
  [][(pc = "setup" \/ cmd'.op \in {"untrust", "status"}) =>
       UNCHANGED <<phpParkDnsmasqConf, resolvedConf, etcResolvConf>>]_vars

\* C18 amended: setupLinuxDNS and checkLinuxDNS, and removeLinuxDNS when the
\* marker file is absent, change nothing but the base-domain fragment
\* (written by setup, removed by remove, left alone by check); when the
\* marker file is present removeLinuxDNS runs the revert, and only the
\* steps of the revert change the marker, resolved.conf or /etc/resolv.conf.
C18_DomainOpsFrame ==
  [][/\ (pc = "setup" \/ cmd'.op = "status" \/ (cmd'.op = "untrust" /\ pc \notin RevertSteps))
        => /\ UNCHANGED <<phpParkDnsmasqConf, resolvedConf, etcResolvConf, runResolve,
                          resolvedActive, stubListener>>
           /\ pc = "setup" => domainConf' \in {domainConf, TRUE}
           /\ cmd'.op = "status" => domainConf' = domainConf
           /\ cmd'.op = "untrust" => domainConf' \in {domainConf, FALSE}
     /\ (cmd'.op = "untrust" /\ pc \in RevertSteps)
        => /\ HasEntry(log', D("remove", "marker", TRUE))
           /\ UNCHANGED domainConf]_vars

\* an untrust without marker has removed the fragment next to a
\* resolved.conf that exists
C18_Witness ==
  /\ cmd.op = "untrust"
  /\ pc = "idle"
  /\ result = "ok"
  /\ HasEntry(log, D("remove", "marker", FALSE))
  /\ resolvedConf # NoFile

\* the calls of DisableSystemdResolvedStub, in the order of the code
DisableOps == <<"set_directive", "restart_resolved", "write_upstream", "write_resolv">>
IsDisableEntry(e) == e.fn = "disable"

\* C19: the calls of DisableSystemdResolvedStub are made in the order
\* directive, restart, upstream fragment, /etc/resolv.conf (the last only
\* when /etc/resolv.conf is a link to a systemd path); each is made only
\* after the ones before it succeeded; after a failed call the function
\* returns, and the failed call and the return leave every file as the
\* earlier calls left it.
C19_DisableInOrder ==
  [][LET d == SelectSeq(log', IsDisableEntry)
     IN /\ Len(d) <= Len(DisableOps)
        /\ \A i \in 1..Len(d) : d[i].op = DisableOps[i] /\ (i < Len(d) => d[i].ok)
        /\ pc \in DisableSteps =>
             /\ Len(log') = Len(log) + 1 \/ (pc = "d4" /\ log' = log)
             /\ pc' \in DisableSteps \cup {"setup"}
             /\ DisableFailed(log') =>
                  /\ pc' = "setup"
                  /\ UNCHANGED <<resolvedConf, phpParkDnsmasqConf, etcResolvConf, runResolve>>
             /\ pc # "d1" => UNCHANGED resolvedConf
             /\ pc # "d3" => UNCHANGED phpParkDnsmasqConf
             /\ pc # "d4" => UNCHANGED etcResolvConf]_vars

\* the write of the upstream fragment failed: the function has returned, the
\* directive is in resolved.conf, the stub is off, /etc/resolv.conf untouched
C19_Witness ==
  /\ pc = "setup"
  /\ HasEntry(log, D("disable", "write_upstream", FALSE))
  /\ StubListenerOff(resolvedConf)
  /\ ~stubListener
  /\ phpParkDnsmasqConf = NoFile

\* C20 as claimed: whenever what is read at /etc/resolv.conf is the text the
\* tool wrote (nameserver 127.0.0.1), the tool's upstream fragment exists
\* and its upstream is not that text: it names the public servers, or the
\* upstream file of systemd-resolved, which then does not hold the text.
C20_NoForwardingLoop ==
  ReadResolvConf(etcResolvConf, runResolve) = Loopback =>
    /\ phpParkDnsmasqConf # NoFile
    /\ phpParkDnsmasqConf = File("resolv-file") =>
         runResolve[systemdResolveResolvConf] # Loopback

(***************************************************************************)
(* Removal of a deployed vhost                                             *)
(***************************************************************************)
RemoveOps == <<"rm_enabled", "rm_available", "test", "reload">>

\* nothing of the site is in sites-enabled or sites-available
NotDeployed(siteName, x) == siteName \notin x.enabled /\ x.avail[siteName] = NoFile

\* C21: RemoveNginxConfig removes the enabled reference, then the available
\* file, then tests, then reloads, each step only after the one before it
\* succeeded, so a reload only after a passed test; for a site with nothing
\* deployed the removals cannot fail, and with a passing test and reload the
\* call returns nil and leaves sites-enabled and sites-available as they
\* were; after a call that returned nil a second call does so again.
C21_RemoveIdempotent ==
  \A n \in AllNames, e \in RemoveEnvs :
    LET r == RemoveNginxConfig(n, Ext, e)
    IN /\ Len(r.log) \in 1..Len(RemoveOps)
       /\ \A i \in 1..Len(r.log) :
            /\ r.log[i].op = RemoveOps[i]
            /\ i < Len(r.log) => r.log[i].ok
       /\ (r.err = "nil") = (Len(r.log) = Len(RemoveOps) /\ r.log[Len(r.log)].ok)
       /\ NotDeployed(n, Ext) =>
            /\ r.x = Ext
            /\ Len(r.log) >= 3
            /\ e.test /\ e.reload => r.err = "nil"
       /\ r.err = "nil" =>
            /\ NotDeployed(n, r.x)
            /\ \A e2 \in RemoveEnvs :
                 LET r2 == RemoveNginxConfig(n, r.x, e2)
                 IN /\ r2.x = r.x
                    /\ e2.test /\ e2.reload => r2.err = "nil"

\* an unlink ran the removal to its end for a deployed site, and the site now
\* has nothing deployed: the case of the second removal
C21_Witness ==
  /\ cmd.op = "unlink"
  /\ result = "ok"
  /\ ncmds = 2
  /\ faults = 0
  /\ HasEntry(log, L("remove", "reload", cmd.name, TRUE))
  /\ NotDeployed(cmd.name, Ext)
  /\ defaultSite = FALSE

(***************************************************************************)
(* Functions of the packages, applied to inputs drawn from bounded sets:   *)
(* `cmd` is the call and its arguments, `result` what it returned, `log`   *)
(* the external calls it made.                                             *)
(***************************************************************************)
B_8_9_1 == <<"8", ".", "9", ".", "1">>
B_8_9 == <<"8", ".", "9">>
B_8_10_0 == <<"8", ".", "1", "0", ".", "0">>
B_9_4 == <<"9", ".", "4">>
B_10_0 == <<"1", "0", ".", "0">>
B_None == <<".">>
Binaries == {ExecFailed} \cup
            {Prints(b) : b \in {B_8_9_1, B_8_9, B_8_10_0, B_9_4, B_10_0, B_None}}
LookPaths == {[found |-> FALSE, bin |-> ExecFailed], [found |-> TRUE, bin |-> Prints(B_8_9_1)]}

\* the call is a detection over directories with at most MaxEntries files;
\* a directory that cannot be read shows none of its files
DetectInit ==
  \E S \in {T \in SUBSET Range(ScanOrder) : Cardinality(T) <= MaxEntries} :
    \E f \in [S -> Binaries],
       u \in {v \in SUBSET Range(searchPaths) : \A pos \in S : pos[1] \notin v},
       lp \in LookPaths :
      cmd = [op |-> "detect", files |-> f, unreadable |-> u, lookPath |-> lp]

VersionChars == {"8", "2", "."}
RECURSIVE Strings(_, _)
Strings(chars, n) ==
  IF n = 0 THEN {<<>>}
  ELSE LET shorter == Strings(chars, n - 1)
       IN shorter \cup {Append(t, c) : t \in {u \in shorter : Len(u) = n - 1}, c \in chars}

FormatInputs == {[op |-> "format", version |-> v] : v \in Strings(VersionChars, MaxVersionLen)}

SitePaths == {<<NameS, NameA>>, <<NameT>>}

DocumentRootInputs ==
  {[op |-> "docroot", sitePath |-> sp, stat |-> st] :
     sp \in SitePaths, st \in [Range(candidates) -> StatKinds]}

SocketInputs ==
  {[op |-> "socket", goos |-> os, goarch |-> arch, name |-> n, version |-> v] :
     os \in {"linux", "darwin"}, arch \in {"amd64", "arm64"},
     n \in {Php, Php8, Append(PhpAt, "8")}, v \in {V82, V83, B_8_9, B_10_0}}

\* two renderings of one site under one config: what is found under the site
\* path and the value of USER may differ between the two
RenderSites ==
  {[LinkSite(NameA, sp, DefaultConfig) EXCEPT !.PHPVersion = v, !.Secured = sec] :
     sp \in SitePaths, v \in {EmptyStr, V83}, sec \in BOOLEAN}
RenderConfigs == {DefaultConfig, [DefaultConfig EXCEPT !.DefaultPHP = V83]}
RenderStats ==
  {st \in [Range(candidates) -> StatKinds] : st[PublicHtml] = "none" /\ st[Htdocs] = "none"}
Users == {"u", "v"}

RenderInputs ==
  {[op |-> "render", site |-> site, cfg |-> cfg, stat |-> st, user |-> us] :
     site \in RenderSites, cfg \in RenderConfigs,
     st \in RenderStats \X RenderStats, us \in Users \X Users}

PathComps == {"home", "u", "s"}
HomeDir == <<"home", "u">>
Trees == {<<>>,
          <<[rel |-> <<"f">>, isDir |-> FALSE]>>,
          <<[rel |-> <<"d">>, isDir |-> TRUE], [rel |-> <<"d", "f">>, isDir |-> FALSE]>>}

PermissionInputs ==
  {[op |-> "perms", path |-> pa, homeDir |-> HomeDir, denied |-> dn, tree |-> tr] :
     pa \in Strings(PathComps, MaxDepth), dn \in {{}, {<<>>}}, tr \in Trees}

\* a command that is not reached has no outcome: it is fixed to success
InstallEnvs ==
  {e \in [repo : BOOLEAN, update : BOOLEAN, core : BOOLEAN,
          ext : [1..Len(extensions) -> BOOLEAN]] :
     /\ ~e.repo => e.update /\ e.core
     /\ ~e.update => e.core
     /\ ~(e.repo /\ e.update /\ e.core) => \A i \in 1..Len(extensions) : e.ext[i]}

InstallInputs == {[op |-> "install", version |-> V83, env |-> e] : e \in InstallEnvs}

\* /etc/systemd/resolved.conf before the stub listener is switched off
StubInputs == {[op |-> "stub", file |-> f] :
                 f \in {NoFile} \cup {File(t) : t \in ResolvedTexts}}

FnInputs == FormatInputs \cup DocumentRootInputs \cup SocketInputs
            \cup RenderInputs \cup PermissionInputs \cup InstallInputs
            \cup StubInputs

FnInit ==
  /\ sitesFile = <<>>
  /\ configFile = DefaultConfig
  /\ stagedConf = [n \in AllNames |-> NoFile]
  /\ sitesAvailable = [n \in AllNames |-> NoFile]
  /\ sitesEnabled = {}
  /\ defaultSite = TRUE
  /\ certFiles = {}
  /\ keyFiles = {}
  /\ publicDirs = {}
  /\ installed = {}
  /\ DetectInit \/ cmd \in FnInputs
  /\ log = <<>>
  /\ result = "none"
  /\ ncmds = 0
  /\ faults = 0
  /\ DnsIdle

\* the function has not been applied yet
Called(op) == ncmds = 0 /\ cmd.op = op
\* the function has returned
Returned(op) == ncmds = 1 /\ cmd.op = op

Return(lg, res) ==
  /\ Finish(cmd, lg, res)
  /\ UNCHANGED <<siteVars, faults>>

Detect ==
  /\ Called("detect")
  /\ Return(<<>>, detectLinuxPHP(cmd.files, cmd.unreadable, cmd.lookPath))

Format ==
  /\ Called("format")
  /\ Return(<<>>, FormatVersion(cmd.version))

DocumentRoot ==
  /\ Called("docroot")
  /\ Return(<<>>, DocumentRootFrom(cmd.sitePath, cmd.stat, 1))

\* the socket the detector gives for a version and the one the generator writes
Socket ==
  /\ Called("socket")
  /\ Return(<<>>, [detector |-> DetectedSocket(cmd.goos, cmd.goarch, cmd.name, cmd.version),
                   generator |-> GetPHPSocket(cmd.version)])

Render ==
  /\ Called("render")
  /\ Return(<<>>, [k \in 1..2 |-> RenderVhost(cmd.site, cmd.cfg, cmd.stat[k], cmd.user[k])])

FixPermissions ==
  /\ Called("perms")
  /\ LET r == FixSitePermissions(cmd.path, cmd.homeDir, cmd.denied, cmd.tree)
     IN Return(r.chmods, IF r.err THEN "err" ELSE "nil")

Install ==
  /\ Called("install")
  /\ LET r == InstallPHP(cmd.version, cmd.env)
     IN Return(r.log, r.err)

\* setDNSStubListener("no") as in DisableSystemdResolvedStub, then
\* setDNSStubListener("") as in RevertSystemdResolvedStub; the result is the
\* file that is left
StubRoundTrip ==
  /\ Called("stub")
  /\ LET off == setDNSStubListener("no", cmd.file, TRUE, TRUE)
         back == setDNSStubListener("", off.file, TRUE, TRUE)
     IN Return(<<D("disable", "set_directive", off.err = "nil"),
                 D("revert", "set_directive", back.err = "nil")>>, back.file)

FnNext == \/ Detect \/ Format \/ DocumentRoot \/ Socket \/ Render \/ FixPermissions
          \/ Install \/ StubRoundTrip

FnSpec == FnInit /\ [][FnNext]_vars

\* the versions the binaries found by the scan report, in scan order
Reported(c) ==
  LET RECURSIVE Rep(_)
      Rep(k) ==
        IF k > Len(ScanOrder) THEN <<>>
        ELSE LET pos == ScanOrder[k]
                 got == IF pos \in DOMAIN c.files
                        THEN GetPHPVersionFromBinary(c.files[pos])
                        ELSE [err |-> TRUE, version |-> EmptyStr]
             IN IF /\ pos \in DOMAIN c.files
                   /\ pos[1] \notin c.unreadable
                   /\ HasPrefixStr(pos[2], Php) /\ Len(pos[2]) > 3
                   /\ ~got.err
                THEN <<[path |-> Append(pos[1], pos[2]),
                        version |-> FormatVersion(got.version)]>> \o Rep(k + 1)
                ELSE Rep(k + 1)
  IN Rep(1)

\* C22: detect() returns no two entries with the same major.minor version,
\* every version a binary of the scan reports is returned, and the entry
\* returned for a version carries the path of the first binary in scan order
\* that reports it.
C22_DetectUnique ==
  Returned("detect") =>
    LET rep == Reported(cmd)
    IN /\ \A i, j \in 1..Len(result) : result[i].Version = result[j].Version => i = j
       /\ {result[i].Version : i \in 1..Len(result)} = {rep[k].version : k \in 1..Len(rep)}
       /\ \A i \in 1..Len(result) :
            \E k \in 1..Len(rep) :
              /\ rep[k].version = result[i].Version
              /\ rep[k].path = result[i].FullPath
              /\ \A l \in 1..(k - 1) : rep[l].version # rep[k].version

\* two binaries, one in each directory, report the same version
C22_Witness ==
  /\ Returned("detect")
  /\ Len(Reported(cmd)) = 2
  /\ Reported(cmd)[1].version = Reported(cmd)[2].version
  /\ Reported(cmd)[1].path[Len(UsrBin)] = "bin"
  /\ Len(Reported(cmd)[2].path) = Len(UsrLocalBin) + 1
  /\ Len(result) = 1

\* the number a run of digits stands for
RECURSIVE Atoi(_)
Atoi(digits) ==
  IF digits = <<>> THEN 0
  ELSE 10 * Atoi(SubSeq(digits, 1, Len(digits) - 1)) + (Ord(digits[Len(digits)]) - 2)

\* version a is numerically newer than version b, by major and then minor
Newer(a, b) ==
  LET pa == Split(a)
      pb == Split(b)
  IN \/ Atoi(pa[1]) > Atoi(pb[1])
     \/ Atoi(pa[1]) = Atoi(pb[1]) /\ Atoi(pa[2]) > Atoi(pb[2])

\* C23: detect() returns the versions newest first, major and minor compared
\* as numbers: of two returned entries the numerically newer one comes first.
C23_NewestFirstNumeric ==
  Returned("detect") =>
    \A i, j \in 1..Len(result) : i < j => Newer(result[i].Version, result[j].Version)

\* the first two components of a dotted version: what comes before its second dot
FirstTwo(v) ==
  LET dots == {i \in 1..Len(v) : v[i] = "."}
  IN IF Cardinality(dots) < 2 THEN v
     ELSE SubSeq(v, 1, (CHOOSE i \in dots : Cardinality({j \in dots : j < i}) = 1) - 1)

\* C24: FormatVersion gives a version of two or more components cut to its
\* first two, leaves every other string as it is, and applied to its own
\* result changes nothing.
C24_FormatIdempotent ==
  Returned("format") =>
    /\ result = FirstTwo(cmd.version)
    /\ FormatVersion(result) = result

\* a version of three components was cut to two
C24_Witness ==
  /\ Returned("format")
  /\ cmd.version = <<"8", ".", "2", ".", "8">>
  /\ result = V82

\* the call saved the config or the registry
UseWrote(lg) ==
  HasEntry(lg, L("cmd", "save_config", EmptyStr, TRUE)) \/ HasEntry(lg, SaveLog(TRUE))

\* C25: a use writes the config default or a site's override only when the
\* normalized version is one of the versions detection returned, at the
\* start or after an install, and what it writes is the normalized version;
\* a use for a version that is not among them returns an error and leaves
\* the config and the registry as they were.
C25_UseWritesOnlyDetected ==
  [][cmd'.op = "use" =>
       LET v == FormatVersion(cmd'.version)
       IN /\ UseWrote(log') \/ configFile' # configFile \/ sitesFile' # sitesFile =>
               /\ v \in installed'
               /\ result' = "ok"
               /\ cmd'.name = EmptyStr =>
                    configFile' = [configFile EXCEPT !.DefaultPHP = v] /\ sitesFile' = sitesFile
               /\ cmd'.name # EmptyStr =>
                    /\ configFile' = configFile
                    /\ Len(sitesFile') = Len(sitesFile)
                    /\ \A i \in 1..Len(sitesFile) :
                         sitesFile'[i] = IF sitesFile[i].Name = cmd'.name
                                         THEN [sitesFile[i] EXCEPT !.PHPVersion = v]
                                         ELSE sitesFile[i]
          /\ v \notin installed' =>
               /\ result' # "ok"
               /\ configFile' = configFile /\ sitesFile' = sitesFile]_vars

\* a site was switched to a version that detection found only after the install
C25_Witness ==
  /\ cmd.op = "use"
  /\ cmd.version = V831
  /\ cmd.name # EmptyStr
  /\ result = "ok"
  /\ HasEntry(log, L("cmd", "install", EmptyStr, TRUE))
  /\ V83 \in installed
  /\ sitesFile[FindSite(sitesFile, cmd.name)].PHPVersion = V83

\* C26: the document root of a site is the first of public, public_html, web,
\* htdocs under the site path that exists as a directory, and the site path
\* itself when none does; a name that exists as a regular file is passed over.
C26_DocumentRootFirstDir ==
  Returned("docroot") =>
    LET dirs == {i \in 1..Len(candidates) : cmd.stat[candidates[i]] = "dir"}
    IN /\ dirs = {} => result = cmd.sitePath
       /\ dirs # {} =>
            \E i \in dirs :
              /\ \A j \in dirs : i <= j
              /\ result = Append(cmd.sitePath, candidates[i])
       /\ \A i \in 1..Len(candidates) :
            cmd.stat[candidates[i]] = "file" => result # Append(cmd.sitePath, candidates[i])

\* public is a regular file, web and htdocs are directories: web is returned
C26_Witness ==
  /\ Returned("docroot")
  /\ cmd.stat[Public] = "file"
  /\ cmd.stat[PublicHtml] = "none"
  /\ cmd.stat[Web] = "dir"
  /\ cmd.stat[Htdocs] = "dir"
  /\ result = Append(cmd.sitePath, Web)

\* C27: for every version the socket path the generator writes is the socket
\* path the detector computes for that version.
C27_SocketsAgree ==
  Returned("socket") => result.generator = result.detector

Under(a, b) == Len(a) >= Len(b) /\ SubSeq(a, 1, Len(b)) = b

\* C29: FixSitePermissions changes the mode only of the site directory, of
\* what is in it, and of the ancestors of the site directory that are the
\* home directory or lie under it: never of a directory above or outside the
\* home directory.
C29_ChmodOnlyUpToHome ==
  Returned("perms") =>
    \A i \in 1..Len(log) :
      \/ Under(log[i].path, cmd.path)
      \/ Under(cmd.path, log[i].path) /\ Under(log[i].path, cmd.homeDir)

\* the commands of a complete install, in order
InstallSteps(version) ==
  <<[op |-> "add_repository", pkg |-> <<"ppa:ondrej/php">>],
    [op |-> "apt_update", pkg |-> <<>>],
    [op |-> "apt_install", pkg |-> Package(version, "-fpm")]>>
  \o [i \in 1..Len(extensions) |->
        [op |-> "apt_install", pkg |-> Package(version, extensions[i])]]

\* C30: InstallPHP adds the repository, refreshes the package index, installs
\* the core package and then the extensions, in that order; when one of the
\* first three fails the call returns an error and runs nothing further;
\* when they succeed every extension install is run, whatever the outcome of
\* the ones before it, and the call returns nil.
C30_InstallOrder ==
  Returned("install") =>
    LET steps == InstallSteps(cmd.version)
        fatal == {i \in 1..3 : i <= Len(log) /\ ~log[i].ok}
    IN /\ Len(log) \in 1..Len(steps)
       /\ \A i \in 1..Len(log) : log[i].op = steps[i].op /\ log[i].site = steps[i].pkg
       /\ log[1].ok = cmd.env.repo
       /\ \A i \in fatal : Len(log) = i /\ result # "nil"
       /\ fatal = {} => Len(log) = Len(steps) /\ result = "nil"
       /\ fatal = {} => \A i \in 1..Len(extensions) : log[3 + i].ok = cmd.env.ext[i]

\* the install of the mysql extension failed; the extensions after it were
\* still installed and the call returned nil
C30_Witness ==
  /\ Returned("install")
  /\ ~cmd.env.ext[3]
  /\ cmd.env.ext[4]
  /\ ~log[6].ok
  /\ Len(log) = 10
  /\ log[10].ok
  /\ result = "nil"

(***************************************************************************)
(* The marker of the stub change                                           *)
(***************************************************************************)
\* a change of the stub made by the trust that has just ended is in effect:
\* it wrote DNSStubListener=no, or it wrote the loopback text over /etc/resolv.conf
StubChangeMade ==
  \/ HasEntry(log, D("disable", "set_directive", TRUE)) /\ StubListenerOff(resolvedConf)
  \/ HasEntry(log, D("disable", "write_resolv", TRUE))

\* C31: the marker /etc/dnsmasq.d/phppark.conf is there exactly when a change
\* of the stub made by the tool is in effect, also after a disable that
\* failed part-way; stated for the state a first trust leaves.
C31_MarkerIffStubChange ==
  (pc = "idle" /\ cmd.op = "trust" /\ ncmds = 1) =>
    (IsSystemdResolvedStubDisabled(phpParkDnsmasqConf) <=> StubChangeMade)

\* C32: every site persisted with Secured = true has its certificate and its
\* key file in the certificate directory, for either value of UseHTTPS.
C32_SecuredHasCertificate ==
  \A i \in 1..Len(sitesFile) :
    sitesFile[i].Secured =>
      (sitesFile[i].Name \in certFiles /\ sitesFile[i].Name \in keyFiles)

(***************************************************************************)
(* The proxy directories under a validator that reads only their content   *)
(*                                                                         *)
(* DeployNginxConfig and RemoveNginxConfig are called for the sites a and  *)
(* b, whose staged vhosts are drawn with and without TLS.  The certificate *)
(* directory is empty, and nginx -t is the function NginxTest of           *)
(* sites-available and sites-enabled: it rejects the configuration when an *)
(* enabled reference dangles or leads to a vhost with TLS.                 *)
(***************************************************************************)
ProxySites == {NameA, NameB}

StagedVhost(n, secured) ==
  File(RenderSite([LinkSite(n, DirS, DefaultConfig) EXCEPT !.Secured = secured],
                  DefaultConfig, {}))

Rejected(text) == text = NoFile \/ text[1].UseSSL

NginxTest(x) == \A n \in x.enabled : ~Rejected(x.avail[n])

\* the content the validator reads is the one DeployNginxConfig has built
\* when it reaches the test, which is what it leaves when the test fails
DeployValidated(siteName, x, env) ==
  LET atTest == DeployNginxConfig(siteName, x, [env EXCEPT !.test = FALSE])
  IN IF atTest.err = "test"
     THEN DeployNginxConfig(siteName, x, [env EXCEPT !.test = NginxTest(atTest.x)])
     ELSE atTest

RemoveValidated(siteName, x, env) ==
  LET atTest == RemoveNginxConfig(siteName, x, [env EXCEPT !.test = FALSE])
  IN IF atTest.err = "test"
     THEN RemoveNginxConfig(siteName, x, [env EXCEPT !.test = NginxTest(atTest.x)])
     ELSE atTest

ProxyInit ==
  /\ sitesFile = <<>>
  /\ configFile = DefaultConfig
  /\ \E tls \in SUBSET ProxySites :
       stagedConf = [n \in AllNames |->
                       IF n \in ProxySites THEN StagedVhost(n, n \in tls) ELSE NoFile]
  /\ sitesAvailable = [n \in AllNames |-> NoFile]
  /\ sitesEnabled = {}
  /\ defaultSite = TRUE
  /\ certFiles = {}
  /\ keyFiles = {}
  /\ publicDirs = {}
  /\ installed = {V82}
  /\ cmd = NoCmd
  /\ log = <<>>
  /\ result = "none"
  /\ ncmds = 0
  /\ faults = 0
  /\ DnsIdle

ProxyFrame == UNCHANGED <<sitesFile, configFile, certFiles, keyFiles, publicDirs, installed>>

ProxyDeploy ==
  /\ ncmds < MaxCmds
  /\ \E n \in ProxySites, e \in {g \in GenEnvs : g.write /\ g.test} :
       LET r == DeployValidated(n, Ext, e)
       IN /\ Inject(GenFaults(e))
          /\ SetExt(r.x)
          /\ Finish(Cmd("deploy", n, <<>>, EmptyStr, <<>>), r.log, r.err)
          /\ ProxyFrame

ProxyRemove ==
  /\ ncmds < MaxCmds
  /\ \E n \in ProxySites, e \in {g \in RemoveEnvs : g.test} :
       LET r == RemoveValidated(n, Ext, e)
       IN /\ Inject(RemoveFaults(e))
          /\ SetExt(r.x)
          /\ Finish(Cmd("remove", n, <<>>, EmptyStr, <<>>), r.log, r.err)
          /\ ProxyFrame

ProxyNext == ProxyDeploy \/ ProxyRemove

ProxySpec == ProxyInit /\ [][ProxyNext]_vars

\* the site's enabled reference leads to a file the validator rejects
Offends(a) == a \in sitesEnabled /\ Rejected(sitesAvailable[a])

TestOf(c) == IF c.op = "deploy" THEN "deploy" ELSE "remove"

\* the call the step makes passes no test and makes no reload
NoTestPassed ==
  /\ ~HasEntry(log', L(TestOf(cmd'), "test", cmd'.name, TRUE))
  /\ \A ok \in BOOLEAN : ~HasEntry(log', L(TestOf(cmd'), "reload", cmd'.name, ok))

\* C33: a deploy whose validation fails leaves the newly copied available
\* file and the enabled reference in place; and under a validator that reads
\* only the proxy directories, while a site's rejected file and reference
\* are in place every DeployNginxConfig or RemoveNginxConfig for another
\* site fails validation, if it gets as far, and makes no reload.
C33_FailedDeployBlocksOthers ==
  [][ /\ (cmd'.op = "deploy" /\ HasEntry(log', L("deploy", "test", cmd'.name, FALSE))) =>
          /\ cmd'.name \in sitesEnabled'
          /\ sitesAvailable'[cmd'.name] = stagedConf[cmd'.name]
          /\ NoTestPassed
      /\ (\E a \in ProxySites \ {cmd'.name} : Offends(a)) => NoTestPassed ]_vars

\* a site's deploy failed its validation, and the next call, for the other
\* site, got as far as the validation and failed it
C33_Witness ==
  /\ ncmds = 2
  /\ HasEntry(log, L(TestOf(cmd), "test", cmd.name, FALSE))
  /\ \E a \in ProxySites \ {cmd.name} : Offends(a) /\ sitesAvailable[a] # NoFile

(***************************************************************************)
(* install and setup on a machine that has a registry and a config         *)
(*                                                                         *)
(* The commands start from the states of InitRegistered.  systemd-resolved *)
(* is taken not to be active there, so that runSetup passes over lines     *)
(* 213-225; the calls before the first fatal failure are the ones made.    *)
(***************************************************************************)
\* paths.Exists(): the configuration directory is there in every state that
\* has a registry
Exists == TRUE

\* runInstall lines 63-75
InstallCmd ==
  /\ ncmds < MaxCmds
  /\ Exists
  /\ Finish(Cmd("install", EmptyStr, <<>>, EmptyStr, <<>>),
            <<L("install_cmd", "exists", EmptyStr, TRUE)>>, "ok")
  /\ UNCHANGED <<siteVars, faults>>

SetupEnvs ==
  {e \in [root : BOOLEAN, answer : BOOLEAN, aptUpdate : BOOLEAN, nginx : BOOLEAN,
          dnsmasq : BOOLEAN, props : BOOLEAN, php : InstallEnvs, dirs : BOOLEAN,
          saveConfig : BOOLEAN, saveSites : BOOLEAN, startNginx : BOOLEAN,
          startFpm : BOOLEAN] :
     LET phpOk == e.php.repo /\ e.php.update /\ e.php.core
         rest4 == e.saveConfig /\ e.saveSites /\ e.startNginx /\ e.startFpm
         rest6 == e.dirs /\ rest4
         rest7 == phpOk /\ (\A i \in 1..Len(extensions) : e.php.ext[i]) /\ rest6
     IN /\ ~(e.root /\ e.answer) =>
             e.aptUpdate /\ e.nginx /\ e.dnsmasq /\ e.props /\ rest7
        /\ ~e.nginx => e.dnsmasq /\ e.props /\ rest7
        /\ ~e.dnsmasq => e.props /\ rest7
        /\ ~phpOk => rest6
        /\ ~e.dirs => rest4
        /\ ~e.saveConfig => e.saveSites /\ e.startNginx /\ e.startFpm
        /\ ~e.saveSites => e.startNginx /\ e.startFpm
        /\ ~e.root => e.answer}

SetupFaults(e) ==
  Fault(e.aptUpdate) + Fault(e.nginx) + Fault(e.dnsmasq) + Fault(e.props)
  + Fault(e.php.repo) + Fault(e.php.update) + Fault(e.php.core)
  + Cardinality({i \in 1..Len(extensions) : ~e.php.ext[i]})
  + Fault(e.dirs) + Fault(e.saveConfig) + Fault(e.saveSites)
  + Fault(e.startNginx) + Fault(e.startFpm)

S(op, ok) == L("setup_cmd", op, EmptyStr, ok)

\* runSetup lines 114-297: the calls made, the error returned, and what is
\* persisted and installed when it returns
runSetup(sites, cfg, inst, env) ==
  LET same(lg, err) == [log |-> lg, err |-> err, sites |-> sites, config |-> cfg,
                        installed |-> inst]
      l1 == <<S("getuid", TRUE), S("answer", TRUE), S("apt_update", env.aptUpdate),
              S("install_nginx", env.nginx)>>
      l2 == Append(l1, S("install_dnsmasq", env.dnsmasq))
      p == InstallPHP(V82, env.php)
      l3 == (l2 \o <<S("conflict", FALSE), S("install_properties", env.props)>>) \o p.log
      inst1 == IF env.php.repo /\ env.php.update /\ env.php.core
               THEN inst \cup {V82} ELSE inst
      l4 == Append(l3, S("ensure_directories", env.dirs))
      l5 == Append(l4, S("save_config", env.saveConfig))
      cfg1 == [DefaultConfig EXCEPT !.DefaultPHP = V82]
      l6 == Append(l5, S("save_sites", env.saveSites))
      l7 == l6 \o <<S("start_nginx", env.startNginx), S("start_fpm", env.startFpm)>>
  IN IF ~env.root THEN same(<<S("getuid", FALSE)>>, "not_root")
     ELSE IF ~env.answer THEN same(<<S("getuid", TRUE), S("answer", FALSE)>>, "nil")
     ELSE IF ~env.nginx THEN same(l1, "install_nginx")
     ELSE IF ~env.dnsmasq THEN same(l2, "install_dnsmasq")
     ELSE IF p.err # "nil"
     THEN [log |-> l3, err |-> "install_php", sites |-> sites, config |-> cfg,
           installed |-> inst1]
     ELSE IF ~env.dirs
     THEN [log |-> l4, err |-> "directories", sites |-> sites, config |-> cfg,
           installed |-> inst1]
     ELSE IF ~env.saveConfig
     THEN [log |-> l5, err |-> "save_config", sites |-> sites, config |-> cfg,
           installed |-> inst1]
     ELSE IF ~env.saveSites
     THEN [log |-> l6, err |-> "save_sites", sites |-> sites, config |-> cfg1,
           installed |-> inst1]
     ELSE [log |-> l7, err |-> "nil", sites |-> <<>>, config |-> cfg1,
           installed |-> inst1]

SetupCmd ==
  /\ ncmds < MaxCmds
  /\ ~CheckSystemdResolvedConflict(resolvedActive)
  /\ \E e \in SetupEnvs :
       LET r == runSetup(sitesFile, configFile, installed, e)
       IN /\ Inject(SetupFaults(e))
          /\ sitesFile' = r.sites
          /\ configFile' = r.config
          /\ installed' = r.installed
          /\ Finish(Cmd("setup", EmptyStr, <<>>, EmptyStr, <<>>), r.log, r.err)
          /\ UNCHANGED <<stagedConf, sitesAvailable, sitesEnabled, defaultSite,
                         certFiles, keyFiles, publicDirs>>

\* InitRegistered on a machine where systemd-resolved is not active
InstalledInit ==
  \E in \in {i \in LinkInputs : i[1] = EmptyStr}, h \in BOOLEAN, v \in {V82, V83} :
    LET cfg == [DefaultConfig EXCEPT !.UseHTTPS = h, !.DefaultPHP = v]
        site == LinkSite(LinkName(in[1], in[2]), in[2], cfg)
        text == File(RenderSite(site, cfg, {<<NameS, NameA>>}))
    IN /\ sitesFile = <<site>>
       /\ configFile = cfg
       /\ stagedConf = [n \in AllNames |-> IF n = site.Name THEN text ELSE NoFile]
       /\ sitesAvailable = [n \in AllNames |-> IF n = site.Name THEN text ELSE NoFile]
       /\ sitesEnabled = {site.Name}
       /\ defaultSite = FALSE
       /\ certFiles = {}
       /\ keyFiles = {}
       /\ publicDirs = {<<NameS, NameA>>}
       /\ installed = {V82, V83}
       /\ cmd = NoCmd
       /\ log = <<>>
       /\ result = "none"
       /\ ncmds = 0
       /\ faults = 0
       /\ resolvedConf = NoFile
       /\ resolvedActive = FALSE
       /\ stubListener = FALSE
       /\ runResolve = [p \in RunPaths |-> "absent"]
       /\ phpParkDnsmasqConf = NoFile
       /\ etcResolvConf = Plain("static")
       /\ domainConf = FALSE
       /\ pc = "idle"

InstalledNext == InstallCmd \/ SetupCmd

InstalledSpec == InstalledInit /\ [][InstalledNext]_vars

\* C34: install and setup, run when a registry and a config exist, leave the
\* registered sites and the config settings as they were.
C34_InstallSetupKeepRegistry ==
  [][cmd'.op \in {"install", "setup"} =>
       (sitesFile' = sitesFile /\ configFile' = configFile)]_vars

\* C35: after runPark has returned without error every listed directory that
\* is not hidden has a record in the persisted registry, whether or not the
\* generation and the deployment of its vhost succeeded.
C35_ParkPersistsEverySubdirectory ==
  [][(cmd'.op = "park" /\ result' = "ok") =>
       \A i \in 1..Len(cmd'.entries) :
         (cmd'.entries[i].IsDir /\ cmd'.entries[i].Name[1] # ".") =>
           cmd'.entries[i].Name \in RegisteredNames(sitesFile')]_vars

\* the record of the name and its staged and deployed vhost files are in the
\* next state what they are now
SiteKept(n) ==
  /\ FindSite(sitesFile', n) = FindSite(sitesFile, n)
  /\ sitesFile'[FindSite(sitesFile, n)] = sitesFile[FindSite(sitesFile, n)]
  /\ stagedConf'[n] = stagedConf[n]
  /\ sitesAvailable'[n] = sitesAvailable[n]
  /\ (n \in sitesEnabled') = (n \in sitesEnabled)

\* C36: park and link leave every site that is registered as it is: its
\* record and its staged and deployed vhost files; and a link of a registered
\* name returns success and changes nothing.
C36_ParkLinkKeepRegistered ==
  [][cmd'.op \in {"park", "link"} =>
       /\ \A n \in RegisteredNames(sitesFile) : SiteKept(n)
       /\ (/\ cmd'.op = "link"
           /\ LinkName(cmd'.name, cmd'.path) \in RegisteredNames(sitesFile)
           /\ HasEntry(log', LoadSitesOK[1])) =>
            (result' = "ok" /\ UNCHANGED siteVars)]_vars

\* a park that skipped a registered subdirectory and registered another one,
\* or a link of a registered name
C36_Witness ==
  /\ ncmds = 2
  /\ result = "ok"
  /\ \/ /\ cmd.op = "park"
        /\ Len(sitesFile) = 2
        /\ sitesFile[1].Name = NameA /\ sitesFile[1].Type = "link"
        /\ \E i \in 1..Len(cmd.entries) : cmd.entries[i].Name = NameA
     \/ /\ cmd.op = "link"
        /\ Len(log) = 1
        /\ LinkName(cmd.name, cmd.path) \in RegisteredNames(sitesFile)

\* the command of the step did not succeed and left the registry, the config
\* and everything outside them as they were
FailedWithoutChange ==
  /\ result' # "ok"
  /\ sitesFile' = sitesFile
  /\ UNCHANGED <<configFile, stagedConf, sitesAvailable, sitesEnabled, defaultSite,
                 certFiles, keyFiles, installed>>

\* C37: a secure whose certificate generation fails returns an error, leaves
\* the persisted registry as it was and regenerates and deploys no vhost; and
\* secure, unsecure and use for a name that is not registered return an error
\* and leave the registry and the state outside it as they were.
C37_FailedSecureAndUnknownNames ==
  [][/\ (cmd'.op = "secure" /\ HasEntry(log', L("cmd", "gen_cert", cmd'.name, FALSE))) =>
          /\ result' # "ok"
          /\ sitesFile' = sitesFile
          /\ UNCHANGED <<stagedConf, sitesAvailable, sitesEnabled, defaultSite>>
          /\ \A i \in 1..Len(log') : log'[i].fn \notin {"generate", "deploy"}
     /\ (/\ cmd'.op \in {"secure", "unsecure", "use"}
         /\ cmd'.name # EmptyStr
         /\ cmd'.name \notin RegisteredNames(sitesFile)) => FailedWithoutChange]_vars

\* C38: after unlink(x) has returned success x is not in the persisted
\* registry and nothing of x is left outside it: no staged vhost file, no
\* available file, no enabled reference, no certificate and no key; the
\* records and files of the other sites are as they were.
C38_UnlinkRemovesEverything ==
  [][(cmd'.op = "unlink" /\ result' = "ok") =>
       LET x == cmd'.name
       IN /\ x \notin RegisteredNames(sitesFile')
          /\ stagedConf'[x] = NoFile
          /\ sitesAvailable'[x] = NoFile
          /\ x \notin sitesEnabled'
          /\ x \notin certFiles' /\ x \notin keyFiles'
          /\ \A n \in AllNames \ {x} :
               /\ stagedConf'[n] = stagedConf[n]
               /\ sitesAvailable'[n] = sitesAvailable[n]
               /\ (n \in sitesEnabled') = (n \in sitesEnabled)
               /\ (n \in certFiles') = (n \in certFiles)
               /\ (n \in keyFiles') = (n \in keyFiles)
               /\ (n \in RegisteredNames(sitesFile) =>
                     /\ n \in RegisteredNames(sitesFile')
                     /\ sitesFile'[FindSite(sitesFile', n)] = sitesFile[FindSite(sitesFile, n)])]_vars

\* the text of a file, an absent file reading as the empty text
TextOf(file) == IF file = NoFile THEN EmptyText ELSE file[1]

\* C39: for every content of resolved.conf that has no DNSStubListener line,
\* the file absent or empty and with or without a [Resolve] section,
\* setDNSStubListener("no") followed by setDNSStubListener("") leaves the
\* content it started from.
C39_DirectiveRoundTrip ==
  (/\ Returned("stub")
   /\ \A i \in 1..Len(TextOf(cmd.file)) : NotDirectiveLine(TextOf(cmd.file)[i])) =>
    TextOf(result) = TextOf(cmd.file)

\* /etc/resolv.conf is a plain file the tool did not write, or a symbolic
\* link that does not lead into systemd-resolved: step 4 of
\* DisableSystemdResolvedStub leaves such a file as it is
Foreign(etc) ==
  \/ etc.kind = "file" /\ etc.text # Loopback
  \/ etc.kind = "symlink" /\ ~ContainsSystemd(etc.target)

\* C40: an /etc/resolv.conf that is a plain file or a symbolic link not into
\* the system resolver, which DisableSystemdResolvedStub left untouched, is
\* still that file or link after RevertSystemdResolvedStub.
C40_RevertKeepsForeignResolvConf ==
  [][(cmd'.op = "untrust" /\ Foreign(etcResolvConf)) =>
       etcResolvConf' = etcResolvConf]_vars
====
